---- MODULE Spec2Model ----
(***************************************************************************)
(* PH-tree of DDexxeDD/phtree-c-demo: the dense-array variant (phtree.c)   *)
(* and the compact-sorted variant (phtree32_2d.c), as state machines over  *)
(* the operations insert, remove, find and window query.                   *)
(*                                                                         *)
(* Memory is modelled as a heap: an address is a positive integer, NULL is *)
(* 0, a freed block keeps its bytes and is marked freed.                   *)
(***************************************************************************)
EXTENDS Integers, Sequences, FiniteSets, TLC

(***************************************************************************)
(* Scale of the model.  The key width of the source is 8 bits (phtree.h)   *)
(* and 32 bits (phtree32_2d.c); the model runs the same code at a narrower *)
(* width.                                                                  *)
(***************************************************************************)
BIT_WIDTH == 5

\* keys 0 .. MaxKey and KEY_MAX are the coordinates the operations are called with
MaxKey == 2

\* at most this many points are stored (inserted and not removed) at a time
MaxStored == 2

\* at most this many ids are pushed into one entry's collection
MaxElements == 2

\* the ids handed to tree_insert are 1 .. MaxValue
MaxValue == 1

\* at most this many calls are made on the trees
MaxCalls == 4

BIT_WIDTH_MAX == 64

DIMENSIONS == 2

NULL == 0

\* the address of tree->root, which lives inside the phtree_t
ROOT == 1

KEY_MAX == (2 ^ BIT_WIDTH) - 1

NODE_CHILD_COUNT == 2 ^ DIMENSIONS

Addresses == 0 .. (NODE_CHILD_COUNT - 1)

Keys == (0 .. MaxKey) \cup {KEY_MAX}

Points == {<<x, y>> : x \in Keys, y \in Keys}

Values == 1 .. MaxValue

\* the corners of key space, which the queries of the state machine are set up with
QueryCorners == {<<x, y>> : x \in {0, KEY_MAX}, y \in {0, KEY_MAX}}

\* the corners of the boxes the properties about queries with exchanged bounds run
QueryPoints == {<<x, y>> : x \in {0, MaxKey, KEY_MAX}, y \in {0, MaxKey, KEY_MAX}}

\* what __builtin_clzll returns for 0, where the builtin is undefined:
\* 64 with a count-leading-zeros instruction, 63 with bsr into the source register
ClzZero == {BIT_WIDTH_MAX, BIT_WIDTH_MAX - 1}

(***************************************************************************)
(* Bit algebra on naturals.                                                *)
(***************************************************************************)
Bit(x, i) == (x \div (2 ^ i)) % 2

RECURSIVE BitXor(_, _)
BitXor(a, b) ==
  IF a = 0 /\ b = 0 THEN 0
  ELSE (((a % 2) + (b % 2)) % 2) + 2 * BitXor(a \div 2, b \div 2)

RECURSIVE BitOr(_, _)
BitOr(a, b) ==
  IF a = 0 /\ b = 0 THEN 0
  ELSE (IF a % 2 = 1 \/ b % 2 = 1 THEN 1 ELSE 0) + 2 * BitOr(a \div 2, b \div 2)

RECURSIVE BitAnd(_, _)
BitAnd(a, b) ==
  IF a = 0 \/ b = 0 THEN 0
  ELSE (IF a % 2 = 1 /\ b % 2 = 1 THEN 1 ELSE 0) + 2 * BitAnd(a \div 2, b \div 2)

RECURSIVE BitLength(_)
BitLength(x) == IF x = 0 THEN 0 ELSE 1 + BitLength(x \div 2)

\* a value stored into a phtree_key_t keeps its low BIT_WIDTH bits
ToKey(x) == x % (2 ^ BIT_WIDTH)

\* a value stored into a uint8_t field
ToU8(x) == x % 256

\* count_leading_zeroes of a 64 bit word; z is what the builtin gives for 0
count_leading_zeroes(x, z) == IF x = 0 THEN z ELSE BIT_WIDTH_MAX - BitLength(x)

(***************************************************************************)
(* Dense-array variant (phtree.c).                                         *)
(*                                                                         *)
(* t.nodes   : node address  -> phtree_node_t                              *)
(* t.entries : entry address -> phtree_entry_t                             *)
(* t.ub      : an access through a pointer to a freed block has happened   *)
(***************************************************************************)
NoChildren == [a \in Addresses |-> NULL]

\* the smallest address that no block, live or freed, occupies
NewAddress(heap) ==
  CHOOSE n \in 1 .. (Cardinality(DOMAIN heap) + 1) :
    /\ n \notin DOMAIN heap
    /\ \A m \in 1 .. (n - 1) : m \in DOMAIN heap

node_is_leaf(node) == node.postfix_length = 0

node_is_root(node) == node.parent = NULL

point_greater_equal(point_a, point_b) ==
  \A iter \in 1 .. DIMENSIONS : ~(point_a[iter] < point_b[iter])

point_less_equal(point_a, point_b) ==
  \A iter \in 1 .. DIMENSIONS : ~(point_a[iter] > point_b[iter])

ShiftPoint(point, n) == [iter \in 1 .. DIMENSIONS |-> point[iter] \div (2 ^ n)]

prefix_greater_equal(point_a, point_b, postfix_length) ==
  point_greater_equal(ShiftPoint(point_a, postfix_length + 1),
                      ShiftPoint(point_b, postfix_length + 1))

prefix_less_equal(point_a, point_b, postfix_length) ==
  point_less_equal(ShiftPoint(point_a, postfix_length + 1),
                   ShiftPoint(point_b, postfix_length + 1))

\* an address loop that puts dimension 0 in the lowest bit
RECURSIVE AddressFrom_low_first(_, _, _)
AddressFrom_low_first(point, postfix_length, iter) ==
  IF iter = 0 THEN 0
  ELSE (Bit(point[iter], postfix_length) * (2 ^ (iter - 1)))
         + AddressFrom_low_first(point, postfix_length, iter - 1)

RECURSIVE AddressFrom(_, _, _)
AddressFrom(point, postfix_length, iter) ==
  IF iter = 0 THEN 0
  ELSE 2 * AddressFrom(point, postfix_length, iter - 1)
         + Bit(point[iter], postfix_length)

\* the loop of calculate_hypercube_address: dimension 0 ends in the top bit
calculate_hypercube_address(point, node) ==
  AddressFrom(point, node.postfix_length, DIMENSIONS) % 256

RECURSIVE DifferenceFrom(_, _, _)
DifferenceFrom(point_a, point_b, iter) ==
  IF iter = 0 THEN 0
  ELSE BitOr(DifferenceFrom(point_a, point_b, iter - 1),
             BitXor(point_a[iter], point_b[iter]))

number_of_diverging_bits(point_a, point_b, z) ==
  BIT_WIDTH_MAX
    - count_leading_zeroes(DifferenceFrom(point_a, point_b, DIMENSIONS), z)

\* a node_create that stores the point as it was handed in
CenterPoint_as_given(point, postfix_length) == point

\* the prefix node_create stores: the postfix bits cleared, the node's bit set
CenterPoint(point, postfix_length) ==
  [dimension \in 1 .. DIMENSIONS |->
     ToKey(BitOr(ToKey(BitAnd(point[dimension], KEY_MAX * (2 ^ (postfix_length + 1)))),
                 2 ^ postfix_length))]

node_add_entry(t, node, point, value) ==
  LET address == calculate_hypercube_address(point, t.nodes[node])
      child   == t.nodes[node].children[address]
      fresh   == NewAddress(t.entries)
  IN  IF child # NULL
      THEN [t EXCEPT !.entries[child].elements = Append(@, value)]
      ELSE [t EXCEPT
              !.entries = (fresh :> [point |-> point, parent |-> node,
                                     elements |-> <<value>>]) @@ @,
              !.nodes[node].children[address] = fresh,
              !.nodes[node].child_count = ToU8(@ + 1)]

\* returns the heap and the address of the new node
node_create(t, parent, infix_length, postfix_length, point, address, value) ==
  LET new_node == NewAddress(t.nodes)
      Filled(made) ==
        [t |-> IF postfix_length % 65536 = 0
               THEN node_add_entry(made, new_node, point, value)
               ELSE made,
         node |-> new_node]
  IN  Filled([t EXCEPT !.nodes = (new_node :>
                 [parent |-> parent,
                  children |-> NoChildren,
                  child_count |-> 0,
                  infix_length |-> ToU8(infix_length),
                  postfix_length |-> ToU8(postfix_length),
                  point |-> CenterPoint(point, postfix_length % 65536),
                  freed |-> FALSE]) @@ @])

node_try_add(t, node, address, point, value) ==
  LET Linked(c) ==
        [t |-> [c.t EXCEPT !.nodes[node].children[address] = c.node,
                           !.nodes[node].child_count = ToU8(@ + 1)],
         node |-> c.node,
         added |-> TRUE]
  IN  IF t.nodes[node].children[address] = NULL
      THEN Linked(node_create(t, node, t.nodes[node].postfix_length - 1, 0,
                              point, address, value))
      ELSE [t |-> t, node |-> t.nodes[node].children[address], added |-> FALSE]

node_insert_split(t, node, sub_node, point, max_conflicting_bits, value) ==
  LET \* sub_node->infix_length is set; sub_node->parent is left as it was
      Shortened(t2, new_node) ==
        [t |-> [t2 EXCEPT !.nodes[sub_node].infix_length =
                  ToU8((t2.nodes[new_node].postfix_length
                          - t2.nodes[sub_node].postfix_length) - 1)],
         node |-> new_node]
      \* sub_node goes into its slot of the new node
      Adopted(t1, new_node) ==
        Shortened([t1 EXCEPT
                     !.nodes[new_node].children[
                         calculate_hypercube_address(t1.nodes[sub_node].point,
                                                     t1.nodes[new_node])]
                        = sub_node,
                     !.nodes[new_node].child_count = ToU8(@ + 1)],
                  new_node)
      \* the new node takes sub_node's slot in node
      Placed(c) ==
        Adopted([c.t EXCEPT
                   !.nodes[node].children[
                       calculate_hypercube_address(point, c.t.nodes[node])]
                      = c.node],
                c.node)
  IN  Placed(node_create(t, node,
                         t.nodes[node].postfix_length - max_conflicting_bits,
                         max_conflicting_bits - 1, point, 0, 0))

node_handle_collision(t, node, sub_node, point, value, z) ==
  LET sub == t.nodes[sub_node]
      max_conflicting_bits == number_of_diverging_bits(point, sub.point, z)
  IN  IF node_is_leaf(sub)
      THEN IF sub.infix_length > 0 /\ max_conflicting_bits > 1
           THEN node_insert_split(t, node, sub_node, point, max_conflicting_bits, value)
           ELSE [t |-> node_add_entry(t, sub_node, point, value), node |-> sub_node]
      ELSE IF sub.infix_length > 0
                /\ max_conflicting_bits > sub.postfix_length + 1
           THEN node_insert_split(t, node, sub_node, point, max_conflicting_bits, value)
           ELSE [t |-> t, node |-> sub_node]

node_add(t, node, point, value, z) ==
  LET Tried(tried) ==
        IF tried.added
        THEN [t |-> tried.t, node |-> tried.node]
        ELSE node_handle_collision(tried.t, node, tried.node, point, value, z)
  IN  Tried(node_try_add(t, node, calculate_hypercube_address(point, t.nodes[node]),
                         point, value))

RECURSIVE tree_insert_loop(_, _, _, _, _)
tree_insert_loop(t, current_node, point, value, z) ==
  LET Added(r) == tree_insert_loop(r.t, r.node, point, value, z)
  IN  IF node_is_leaf(t.nodes[current_node])
      THEN [t |-> t,
            entry |-> t.nodes[current_node].children[
                         calculate_hypercube_address(point, t.nodes[current_node])]]
      ELSE Added(node_add(t, current_node, point, value, z))

tree_insert(t, point, value, z) == tree_insert_loop(t, ROOT, point, value, z)

RECURSIVE tree_find_loop(_, _, _)
tree_find_loop(t, current_node, point) ==
  IF current_node = NULL THEN NULL
  ELSE LET next == t.nodes[current_node].children[
                      calculate_hypercube_address(point, t.nodes[current_node])]
       IN  IF node_is_leaf(t.nodes[current_node]) THEN next
           ELSE tree_find_loop(t, next, point)

tree_find(t, point) == tree_find_loop(t, ROOT, point)

tree_point_exists(t, point) == tree_find(t, point) # NULL

tree_empty(t) == t.nodes[ROOT].child_count = 0

\* tree_create: calloc, then tree_initialize
tree_create ==
  [nodes |-> (ROOT :> [parent |-> NULL,
                       children |-> NoChildren,
                       child_count |-> 0,
                       infix_length |-> 0,
                       postfix_length |-> BIT_WIDTH - 1,
                       point |-> [dimension \in 1 .. DIMENSIONS |-> 0],
                       freed |-> FALSE]),
   entries |-> <<>>,
   ub |-> FALSE]

\* the first live child of a node, in slot order, as the merge loop finds it
RECURSIVE FirstChild(_, _)
FirstChild(node, iter) ==
  IF iter >= NODE_CHILD_COUNT THEN NULL
  ELSE IF node.children[iter] # NULL THEN node.children[iter]
  ELSE FirstChild(node, iter + 1)

\* a tree_remove whose walk up frees the root as well once it has no child left
tree_remove_loop_root_too(t, current_node) ==
  IF t.nodes[current_node].child_count = 0
  THEN [t EXCEPT !.nodes[current_node].freed = TRUE]
  ELSE t

\* the while loop of tree_remove: merge one-child nodes into their parent
RECURSIVE tree_remove_loop(_, _)
tree_remove_loop(t, current_node) ==
  LET current == t.nodes[current_node]
      parent  == current.parent
  IN  IF node_is_root(current) THEN t
      ELSE IF current.child_count = 1
      THEN tree_remove_loop(
             [t EXCEPT
                !.nodes[parent].children[
                    calculate_hypercube_address(current.point, t.nodes[parent])]
                   = FirstChild(current, 0),
                !.nodes[current_node].freed = TRUE,
                !.ub = @ \/ t.nodes[parent].freed],
             parent)
      ELSE t

tree_remove(t, point) ==
  LET \* the leaf is empty: it leaves its parent and is freed
      Emptied(t1, current_node, parent) ==
        tree_remove_loop(
          [t1 EXCEPT
             !.nodes[parent].children[
                 calculate_hypercube_address(t1.nodes[current_node].point,
                                             t1.nodes[parent])] = NULL,
             !.nodes[parent].child_count = ToU8(@ - 1),
             !.nodes[current_node].freed = TRUE,
             !.ub = @ \/ t1.nodes[parent].freed],
          parent)
      Cleared(t1, current_node) ==
        IF t1.nodes[current_node].child_count # 0 THEN t1
        ELSE Emptied(t1, current_node, t1.nodes[current_node].parent)
      \* entry_free, then the slot is cleared
      Found(entry, current_node) ==
        Cleared([t EXCEPT
                   !.entries = [e \in (DOMAIN t.entries) \ {entry} |-> t.entries[e]],
                   !.nodes[current_node].children[
                       calculate_hypercube_address(point, t.nodes[current_node])] = NULL,
                   !.nodes[current_node].child_count = ToU8(@ - 1),
                   !.ub = @ \/ t.nodes[current_node].freed],
                current_node)
      Looked(entry) ==
        IF entry = NULL THEN t ELSE Found(entry, t.entries[entry].parent)
  IN  Looked(tree_find(t, point))

(***************************************************************************)
(* Window queries of the dense variant.  A query holds min, max and the    *)
(* entries found, in the order tree_query_window pushes them.              *)
(***************************************************************************)
node_in_window(node, window) ==
  /\ prefix_greater_equal(node.point, window.min, node.postfix_length)
  /\ prefix_less_equal(node.point, window.max, node.postfix_length)

entry_in_window(entry, window) ==
  /\ point_greater_equal(entry.point, window.min)
  /\ point_less_equal(entry.point, window.max)

\* mask_lower and mask_upper: one bit per dimension, dimension 0 on top
RECURSIVE MaskFrom(_, _, _)
MaskFrom(bound, center, dimension) ==
  IF dimension = 0 THEN 0
  ELSE ToKey(2 * MaskFrom(bound, center, dimension - 1)
               + (IF bound[dimension] >= center[dimension] THEN 1 ELSE 0))

MaskPass(iter, mask_lower, mask_upper) ==
  BitAnd(BitOr(iter, mask_lower), mask_upper) = iter

RECURSIVE node_query_window(_, _, _)
RECURSIVE node_query_children(_, _, _, _)
node_query_children(t, node, query, iter) ==
  IF iter >= NODE_CHILD_COUNT THEN query
  ELSE
    LET n == t.nodes[node]
        mask_lower == MaskFrom(query.min, n.point, DIMENSIONS)
        mask_upper == MaskFrom(query.max, n.point, DIMENSIONS)
        child == n.children[iter]
        hit == child # NULL /\ MaskPass(iter, mask_lower, mask_upper)
    IN  node_query_children(t, node,
          IF ~hit THEN query
          ELSE IF node_is_leaf(n)
          THEN IF entry_in_window(t.entries[child], query)
               THEN [query EXCEPT !.entries = Append(@, child)]
               ELSE query
          ELSE node_query_window(t, child, query),
          iter + 1)

node_query_window(t, node, query) ==
  IF ~node_in_window(t.nodes[node], query) THEN query
  ELSE node_query_children(t, node, query, 0)

RECURSIVE tree_query_window_loop(_, _, _)
tree_query_window_loop(t, query, iter) ==
  IF iter >= NODE_CHILD_COUNT THEN query
  ELSE tree_query_window_loop(t,
         IF t.nodes[ROOT].children[iter] # NULL
         THEN node_query_window(t, t.nodes[ROOT].children[iter], query)
         ELSE query,
         iter + 1)

tree_query_window(t, query) == tree_query_window_loop(t, query, 0)

\* window_query_create without the exchange of the bounds
window_query_create_as_given(min, max) == [min |-> min, max |-> max, entries |-> <<>>]

\* per axis, the smaller bound goes to min and the larger to max
window_query_create(min, max) ==
  [min |-> [iter \in 1 .. DIMENSIONS |->
              IF max[iter] < min[iter] THEN max[iter] ELSE min[iter]],
   max |-> [iter \in 1 .. DIMENSIONS |->
              IF max[iter] < min[iter] THEN min[iter] ELSE max[iter]],
   entries |-> <<>>]

(***************************************************************************)
(* Addresses are what the allocator hands out and carry no meaning: after  *)
(* each call the heap is renumbered in the order a walk from the root      *)
(* meets the blocks, and blocks that no pointer leads to are dropped.      *)
(***************************************************************************)
IndexOf(seq, x) == CHOOSE i \in 1 .. Len(seq) : seq[i] = x

InSeq(seq, x) == \E i \in 1 .. Len(seq) : seq[i] = x

RECURSIVE AddNew(_, _, _, _)
AddNew(order, refs, k, known) ==
  IF k > Len(refs) THEN order
  ELSE IF refs[k] # NULL /\ refs[k] \in known /\ ~InSeq(order, refs[k])
  THEN AddNew(Append(order, refs[k]), refs, k + 1, known)
  ELSE AddNew(order, refs, k + 1, known)

ChildSeq(node) == [i \in 1 .. NODE_CHILD_COUNT |-> node.children[i - 1]]

RECURSIVE NodeOrder(_, _, _)
NodeOrder(t, order, i) ==
  IF i > Len(order) THEN order
  ELSE LET n == t.nodes[order[i]]
           refs == IF node_is_leaf(n) THEN <<n.parent>>
                   ELSE ChildSeq(n) \o <<n.parent>>
       IN  NodeOrder(t, AddNew(order, refs, 1, DOMAIN t.nodes), i + 1)

RECURSIVE EntryOrder(_, _, _, _)
EntryOrder(t, nodeOrder, order, i) ==
  IF i > Len(nodeOrder) THEN order
  ELSE LET n == t.nodes[nodeOrder[i]]
       IN  EntryOrder(t, nodeOrder,
                      IF node_is_leaf(n)
                      THEN AddNew(order, ChildSeq(n), 1, DOMAIN t.entries)
                      ELSE order,
                      i + 1)

Renumber(order, a) == IF a # NULL /\ InSeq(order, a) THEN IndexOf(order, a) ELSE NULL

Normalize(t) ==
  LET nodeOrder  == NodeOrder(t, <<ROOT>>, 1)
      entryOrder == EntryOrder(t, nodeOrder, <<>>, 1)
  IN  [nodes |->
         [i \in 1 .. Len(nodeOrder) |->
            LET n == t.nodes[nodeOrder[i]]
            IN  [n EXCEPT
                   !.parent = Renumber(nodeOrder, n.parent),
                   !.children = [a \in Addresses |->
                                   IF node_is_leaf(n)
                                   THEN Renumber(entryOrder, n.children[a])
                                   ELSE Renumber(nodeOrder, n.children[a])]]],
       entries |->
         [i \in 1 .. Len(entryOrder) |->
            [t.entries[entryOrder[i]] EXCEPT
               !.parent = Renumber(nodeOrder, t.entries[entryOrder[i]].parent)]],
       ub |-> t.ub]

(***************************************************************************)
(* Compact variant (phtree32_2d.c).                                        *)
(*                                                                         *)
(* A ph2_dual_node_t is a record with the fields of both union members.    *)
(* children is the whole allocated array, child_capacity slots long, so a  *)
(* slot past child_count keeps the bytes memmove left in it.  A slot is    *)
(* named by the array indices that lead to it from the root; where the     *)
(* code returns an entry pointer, the empty path is NULL.                  *)
(***************************************************************************)
PHTREE_BIT_WIDTH_MAX == BIT_WIDTH_MAX

PHTREE_DEPTH == BIT_WIDTH

NODE_CHILD_MAX == 2 ^ DIMENSIONS

CHILD_SHIFT == NODE_CHILD_MAX - 1 + 4

RECURSIVE popcount(_)
popcount(x) == IF x = 0 THEN 0 ELSE (x % 2) + popcount(x \div 2)

\* a value stored into an int8_t field
ToI8(x) == IF x % 256 >= 128 THEN (x % 256) - 256 ELSE x % 256

\* one slot of calloc'ed memory
ZeroDual ==
  [point |-> [dimension \in 1 .. DIMENSIONS |-> 0], children |-> <<>>,
   element |-> NULL, active_children |-> 0, child_capacity |-> 0,
   child_count |-> 0, infix_length |-> 0, postfix_length |-> 0]

child_index(dual, address) ==
  popcount(dual.active_children \div (2 ^ (CHILD_SHIFT - address))) - 1

child_active(dual, address) == Bit(dual.active_children, CHILD_SHIFT - address) = 1

phtree_node_is_leaf(dual) == dual.postfix_length = 0

phtree_node_is_root(dual) == dual.postfix_length = PHTREE_DEPTH - 1

\* the element handle the user's element_create returns for an index: the
\* demo's cell, which is determined by the coordinates of the index
cell_create(input) == 1 + input[1] * (2 ^ BIT_WIDTH) + input[2]

\* point_a & ~point_b is zero in every dimension
point_equal(point_a, point_b) ==
  \A dimension \in 1 .. DIMENSIONS :
    BitAnd(point_a[dimension], KEY_MAX - point_b[dimension]) = 0

prefix_equal(point_a, point_b, postfix_length) ==
  point_equal(ShiftPoint(point_a, postfix_length + 1),
              ShiftPoint(point_b, postfix_length + 1))

ph2_calculate_hypercube_address(point, dual) ==
  AddressFrom(point, dual.postfix_length, DIMENSIONS)

ph2_number_of_diverging_bits(point_a, point_b, z) ==
  PHTREE_BIT_WIDTH_MAX
    - count_leading_zeroes(DifferenceFrom(point_a, point_b, DIMENSIONS), z)

RECURSIVE GetAt(_, _)
GetAt(dual, path) ==
  IF path = <<>> THEN dual ELSE GetAt(dual.children[Head(path) + 1], Tail(path))

RECURSIVE SetAt(_, _, _)
SetAt(dual, path, new) ==
  IF path = <<>> THEN new
  ELSE [dual EXCEPT !.children[Head(path) + 1] = SetAt(@, Tail(path), new)]

\* ub: memmove was handed a negative length, or phtree_realloc was handed the
\* array ph2_clear has freed (child_capacity 0 with the pointer still set)
add_child(dual, address) ==
  LET \* memmove opens the slot at index, the new slot is zeroed
      Opened(marked, index, count, stale) ==
        [dual |-> [marked EXCEPT
                     !.children =
                        [j \in 1 .. Len(marked.children) |->
                           IF j - 1 < index THEN marked.children[j]
                           ELSE IF j - 1 = index THEN ZeroDual
                           ELSE IF j - 1 <= count THEN marked.children[j - 1]
                           ELSE marked.children[j]],
                     !.child_count = ToI8(@ + 1)],
         index |-> index,
         ub |-> count - index < 0 \/ stale]
      Marked(marked, stale) ==
        Opened(marked, child_index(marked, address), marked.child_count, stale)
      Grown(grown, stale) ==
        Marked([grown EXCEPT !.active_children =
                  ToU8(BitOr(@, 2 ^ (CHILD_SHIFT - address)))],
               stale)
  IN  IF dual.child_count >= dual.child_capacity
      THEN Grown([dual EXCEPT !.children = @ \o [i \in 1 .. 4 |-> ZeroDual],
                              !.child_capacity = ToI8(@ + 4)],
                 dual.child_capacity = 0 /\ dual.children # <<>>)
      ELSE Grown(dual, FALSE)

ph2_node_add_entry(dual, point) ==
  LET address == ph2_calculate_hypercube_address(point, dual)
      Added(a) ==
        [dual |-> [a.dual EXCEPT !.children[a.index + 1] =
                     [ZeroDual EXCEPT !.point = point]],
         ub |-> a.ub]
  IN  IF child_active(dual, address) THEN [dual |-> dual, ub |-> FALSE]
      ELSE Added(add_child(dual, address))

\* the fields node_initialize writes; the parameters are uint16_t
node_initialize(infix_length, postfix_length, point) ==
  [point |-> CenterPoint(point, postfix_length % 65536),
   children |-> [i \in 1 .. 4 |-> ZeroDual],
   element |-> NULL,
   active_children |-> 0,
   child_capacity |-> 4,
   child_count |-> 0,
   infix_length |-> ToI8(infix_length % 65536),
   postfix_length |-> ToI8(postfix_length % 65536)]

ph2_node_try_add(dual, address, point) ==
  LET Added(a, e) ==
        [dual |-> [a.dual EXCEPT !.children[a.index + 1] = e.dual],
         index |-> a.index, added |-> TRUE, ub |-> a.ub \/ e.ub]
  IN  IF ~child_active(dual, address)
      THEN Added(add_child(dual, address),
                 ph2_node_add_entry(
                   node_initialize(dual.postfix_length - 1, 0, point), point))
      ELSE [dual |-> dual, index |-> child_index(dual, address),
            added |-> FALSE, ub |-> FALSE]

\* returns what child becomes and the index in it of the leaf made for point
ph2_node_insert_split(parent, child, point, max_conflicting_bits) ==
  LET \* the leaf for point is made in the split node
      Filled(a2, e, ub) ==
        [child |-> [a2.dual EXCEPT !.children[a2.index + 1] = e.dual],
         index |-> a2.index,
         ub |-> ub \/ a2.ub \/ e.ub]
      Moved(s1, ub) ==
        Filled(add_child(s1, ph2_calculate_hypercube_address(point, s1)),
               ph2_node_add_entry(node_initialize(s1.postfix_length - 1, 0, point),
                                  point),
               ub)
      \* the old child is copied into its slot of the split node
      Linked(split, a1) ==
        Moved([a1.dual EXCEPT !.children[a1.index + 1] =
                 [child EXCEPT !.infix_length =
                    ToI8((split.postfix_length - child.postfix_length) - 1)]],
              a1.ub)
      Made(split) ==
        Linked(split,
               add_child(split, ph2_calculate_hypercube_address(child.point, split)))
  IN  Made(node_initialize(parent.postfix_length - max_conflicting_bits,
                           max_conflicting_bits - 1, point))

\* returns dual and the path in it of the node ph2_insert goes on with
ph2_node_handle_collision(dual, index, point, z) ==
  LET sub_node == dual.children[index + 1]
      Split(s) ==
        [dual |-> [dual EXCEPT !.children[index + 1] = s.child],
         path |-> <<index, s.index>>, ub |-> s.ub]
      Entered(e) ==
        [dual |-> [dual EXCEPT !.children[index + 1] = e.dual],
         path |-> <<index>>, ub |-> e.ub]
      Collided(max_conflicting_bits) ==
        IF sub_node.infix_length > 0
           /\ max_conflicting_bits > sub_node.postfix_length + 1
        THEN Split(ph2_node_insert_split(dual, sub_node, point, max_conflicting_bits))
        ELSE IF phtree_node_is_leaf(sub_node)
        THEN Entered(ph2_node_add_entry(sub_node, point))
        ELSE [dual |-> dual, path |-> <<index>>, ub |-> FALSE]
  IN  Collided(ph2_number_of_diverging_bits(point, sub_node.point, z))

ph2_node_add(node, point, z) ==
  LET Tried(t) ==
        IF t.added THEN [dual |-> t.dual, path |-> <<t.index>>, ub |-> t.ub]
        ELSE ph2_node_handle_collision(node, t.index, point, z)
  IN  Tried(ph2_node_try_add(node, ph2_calculate_hypercube_address(point, node), point))

RECURSIVE ph2_insert_loop(_, _, _)
ph2_insert_loop(current_dual, point, z) ==
  LET \* the entry of the leaf: element_create runs where it has no element
      Entry(offset) ==
        IF offset < 0
        THEN [dual |-> current_dual, element |-> NULL, created |-> FALSE,
              path |-> <<>>, ub |-> TRUE]
        ELSE IF current_dual.children[offset + 1].element = NULL
        THEN [dual |-> [current_dual EXCEPT
                          !.children[offset + 1].element = cell_create(point)],
              element |-> cell_create(point), created |-> TRUE,
              path |-> <<offset>>, ub |-> FALSE]
        ELSE [dual |-> current_dual,
              element |-> current_dual.children[offset + 1].element,
              created |-> FALSE, path |-> <<offset>>, ub |-> FALSE]
      Below(r, rr) ==
        [dual |-> SetAt(r.dual, r.path, rr.dual), element |-> rr.element,
         created |-> rr.created, path |-> r.path \o rr.path,
         ub |-> r.ub \/ rr.ub]
      Added(r) == Below(r, ph2_insert_loop(GetAt(r.dual, r.path), point, z))
  IN  IF phtree_node_is_leaf(current_dual)
      THEN Entry(child_index(current_dual,
                             ph2_calculate_hypercube_address(point, current_dual)))
      ELSE Added(ph2_node_add(current_dual, point, z))

\* returns the tree, the element returned, whether element_create was called
\* and the path of the entry
ph2_insert(t, point, z) ==
  LET Inserted(r) ==
        [t |-> [root |-> r.dual, ub |-> t.ub \/ r.ub],
         element |-> r.element, created |-> r.created, path |-> r.path]
  IN  Inserted(ph2_insert_loop(t.root, point, z))

ph2_initialize ==
  [root |-> node_initialize(0, PHTREE_DEPTH - 1, [dimension \in 1 .. DIMENSIONS |-> 0]),
   ub |-> FALSE]

RECURSIVE ph2_find_loop(_, _, _)
ph2_find_loop(current_dual, path, point) ==
  LET address == ph2_calculate_hypercube_address(point, current_dual)
      index == child_index(current_dual, address)
  IN  IF ~phtree_node_is_leaf(current_dual)
      THEN IF ~child_active(current_dual, address)
              \/ ~prefix_equal(point, current_dual.point, current_dual.postfix_length)
           THEN <<>>
           ELSE ph2_find_loop(current_dual.children[index + 1],
                              Append(path, index), point)
      ELSE IF ~child_active(current_dual, address)
              \/ ~point_equal(point, current_dual.point)
           THEN <<>>
           ELSE Append(path, index)

\* ub: the root's child array was read at index -1
ph2_find_entry(t, point) ==
  LET index == child_index(t.root, ph2_calculate_hypercube_address(point, t.root))
  IN  IF index < 0 THEN [path |-> <<>>, ub |-> TRUE]
      ELSE [path |-> ph2_find_loop(t.root.children[index + 1], <<index>>, point),
            ub |-> FALSE]

ph2_find(t, point) ==
  LET Found(entry) ==
        [element |-> IF entry.path = <<>> THEN NULL
                     ELSE GetAt(t.root, entry.path).element,
         ub |-> entry.ub]
  IN  Found(ph2_find_entry(t, point))

ph2_empty(t) == t.root.child_count = 0

\* ub: the array was indexed at -1, or memmove was handed a negative length
ph2_remove_entry(dual, address) ==
  LET index == child_index(dual, address)
      count == dual.child_count
      cleared == IF index < 0 THEN dual.children
                 ELSE [dual.children EXCEPT ![index + 1].element = NULL]
      moved == [j \in 1 .. Len(cleared) |->
                  IF j - 1 >= index /\ j - 1 < count - 1 /\ j < Len(cleared)
                  THEN cleared[j + 1] ELSE cleared[j]]
  IN  [dual |-> [dual EXCEPT
                   !.children = moved,
                   !.child_count = ToI8(@ - 1),
                   !.active_children =
                      ToU8(BitAnd(@, 255 - (2 ^ (CHILD_SHIFT - address))))],
       ub |-> index < 0 \/ count - index - 1 < 0]

ph2_remove_child(dual, address) ==
  LET index == child_index(dual, address)
      count == dual.child_count
      moved == [j \in 1 .. Len(dual.children) |->
                  IF j - 1 >= index /\ j - 1 < count - 1 /\ j < Len(dual.children)
                  THEN dual.children[j + 1] ELSE dual.children[j]]
  IN  [dual |-> [dual EXCEPT
                   !.children = moved,
                   !.child_count = ToI8(@ - 1),
                   !.active_children =
                      ToU8(BitAnd(@, 255 - (2 ^ (CHILD_SHIFT - address))))],
       ub |-> index < 0 \/ count - index - 1 < 0]

\* the descent of ph2_remove: the path of the leaf, or <<>> where it returns early
RECURSIVE ph2_remove_descend(_, _, _)
ph2_remove_descend(current_node, path, point) ==
  LET address == ph2_calculate_hypercube_address(point, current_node)
  IN  IF phtree_node_is_leaf(current_node) THEN path
      ELSE IF child_active(current_node, address)
      THEN ph2_remove_descend(
             current_node.children[child_index(current_node, address) + 1],
             Append(path, child_index(current_node, address)), point)
      ELSE <<>>

\* the while loop of ph2_remove; node_stack[i] is the node at the first i
\* indices of path.  current_node points at the slot that has just been
\* overwritten, so the array phtree_free is handed is the moved child's: the
\* tree is left pointing into freed memory (ub)
RECURSIVE ph2_remove_loop(_, _, _, _)
ph2_remove_loop(t, path, point, stack_index) ==
  LET Merged(parent_path, parent, only) ==
        ph2_remove_loop(
          [root |-> SetAt(t.root,
                          Append(parent_path,
                                 child_index(parent,
                                   ph2_calculate_hypercube_address(point, parent))),
                          [only EXCEPT !.infix_length =
                             ToI8(parent.postfix_length - only.postfix_length - 1)]),
           ub |-> TRUE],
          path, point, stack_index - 1)
      Stacked(parent_path, current_node) ==
        IF current_node.child_count > 1 THEN t
        ELSE Merged(parent_path, GetAt(t.root, parent_path), current_node.children[1])
  IN  IF ~(stack_index > 0) THEN t
      ELSE Stacked(SubSeq(path, 1, stack_index - 1),
                   GetAt(t.root, SubSeq(path, 1, stack_index)))

ph2_remove(t, point) ==
  LET \* the leaf is empty: it leaves its parent, then the while loop runs
      Unlinked(root1, parent_path, c, path, ub) ==
        ph2_remove_loop([root |-> SetAt(root1, parent_path, c.dual),
                         ub |-> ub \/ c.ub],
                        path, point, Len(path) - 2)
      Emptied(root1, parent_path, parent, path, ub) ==
        Unlinked(root1, parent_path,
                 ph2_remove_child(parent,
                                  ph2_calculate_hypercube_address(point, parent)),
                 path, ub)
      Removed(root1, e, path) ==
        IF e.dual.child_count = 0
        THEN Emptied(root1, SubSeq(path, 1, Len(path) - 1),
                     GetAt(root1, SubSeq(path, 1, Len(path) - 1)),
                     path, t.ub \/ e.ub)
        ELSE [root |-> root1, ub |-> t.ub \/ e.ub]
      Entry(e, path) == Removed(SetAt(t.root, path, e.dual), e, path)
      Leaf(leaf, path) ==
        Entry(ph2_remove_entry(leaf, ph2_calculate_hypercube_address(point, leaf)),
              path)
      Descended(path) ==
        IF path = <<>> THEN t ELSE Leaf(GetAt(t.root, path), path)
  IN  Descended(ph2_remove_descend(t.root, <<>>, point))

\* the elements for_each hands to the iteration function, in order
RECURSIVE for_each(_, _, _)
for_each(dual, found, iter) ==
  IF iter >= dual.child_count THEN found
  ELSE for_each(dual,
         IF phtree_node_is_leaf(dual)
         THEN Append(found, dual.children[iter + 1])
         ELSE for_each(dual.children[iter + 1], found, 0),
         iter + 1)

RECURSIVE ph2_for_each_loop(_, _, _)
ph2_for_each_loop(t, found, iter) ==
  IF iter >= t.root.child_count THEN found
  ELSE ph2_for_each_loop(t, for_each(t.root.children[iter + 1], found, 0), iter + 1)

ph2_for_each(t) == ph2_for_each_loop(t, <<>>, 0)

(***************************************************************************)
(* Window queries of the compact variant.  The iteration function of the   *)
(* model appends the entry it is handed the element of to query.found.     *)
(***************************************************************************)
ph2_node_in_window(dual, window) ==
  /\ prefix_greater_equal(dual.point, window.min, dual.postfix_length)
  /\ prefix_less_equal(dual.point, window.max, dual.postfix_length)

ph2_entry_in_window(dual, window) ==
  /\ point_greater_equal(dual.point, window.min)
  /\ point_less_equal(dual.point, window.max)

RECURSIVE ph2_node_query_window(_, _)
RECURSIVE ph2_node_query_children(_, _, _)
ph2_node_query_children(dual, query, iter) ==
  IF iter >= NODE_CHILD_MAX THEN query
  ELSE
    LET mask_lower == MaskFrom(query.min, dual.point, DIMENSIONS)
        mask_upper == MaskFrom(query.max, dual.point, DIMENSIONS)
        child == dual.children[child_index(dual, iter) + 1]
        hit == child_active(dual, iter) /\ MaskPass(iter, mask_lower, mask_upper)
    IN  ph2_node_query_children(dual,
          IF ~hit THEN query
          ELSE IF phtree_node_is_leaf(dual)
          THEN IF ph2_entry_in_window(child, query)
               THEN [query EXCEPT !.found = Append(@, child)]
               ELSE query
          ELSE ph2_node_query_window(child, query),
          iter + 1)

ph2_node_query_window(dual, query) ==
  IF ~ph2_node_in_window(dual, query) THEN query
  ELSE ph2_node_query_children(dual, query, 0)

RECURSIVE ph2_query_loop(_, _, _)
ph2_query_loop(t, query, iter) ==
  IF iter >= t.root.child_count THEN query
  ELSE ph2_query_loop(t, ph2_node_query_window(t.root.children[iter + 1], query),
                      iter + 1)

ph2_query(t, query) == ph2_query_loop(t, query, 0)

query_set_internal(min, max) ==
  [min |-> [dimension \in 1 .. DIMENSIONS |->
              IF max[dimension] < min[dimension] THEN max[dimension] ELSE min[dimension]],
   max |-> [dimension \in 1 .. DIMENSIONS |->
              IF max[dimension] < min[dimension] THEN min[dimension] ELSE max[dimension]],
   found |-> <<>>]

\* convert_to_point of the model hands the coordinates on as keys
ph2_query_set(min_in, max_in) == query_set_internal(min_in, max_in)

(***************************************************************************)
(* State.  The two variants are driven by the same calls.                  *)
(*   tree   : the dense tree's heap                                        *)
(*   ph2    : the compact tree                                             *)
(*   stored : the points inserted and not removed since                    *)
(*   ret    : the last call and what it returned                           *)
(*   calls  : the number of calls made so far                              *)
(*   input  : two objects of BIT_WIDTH bits handed to a key encoder        *)
(*   key    : the encoder last called and the keys it returned for them    *)
(***************************************************************************)
VARIABLES tree, ph2, stored, ret, calls, input, key

vars == <<tree, ph2, stored, ret, calls, input, key>>

\* no encoder has been called
NoKey == [f |-> "none", a |-> 0, b |-> 0]

InitTrees ==
  /\ tree = Normalize(tree_create)
  /\ ph2 = ph2_initialize
  /\ stored = {}
  /\ ret = [op |-> "none", found |-> FALSE, swapped |-> FALSE]
  /\ calls = 0

Init ==
  /\ InitTrees
  /\ input = <<0, 0>>
  /\ key = NoKey

\* a call that ran into undefined behaviour either ends the process or goes on
\* with what the memory it touched holds
Outcome(t, p, s, r) ==
  /\ calls < MaxCalls
  /\ calls' = calls + 1
  /\ UNCHANGED <<input, key>>
  /\ \E crash \in {FALSE, t.ub \/ p.ub} :
       IF crash
       THEN /\ ret' = [op |-> "crashed", found |-> FALSE, swapped |-> FALSE]
            /\ UNCHANGED <<tree, ph2, stored>>
       ELSE /\ tree' = t
            /\ ph2' = p
            /\ stored' = s
            /\ ret' = r

Insert(point, value, z) ==
  LET Inserted(r, c) ==
        /\ \A e \in DOMAIN r.t.entries : Len(r.t.entries[e].elements) <= MaxElements
        /\ Outcome(Normalize(r.t), c.t, stored \cup {point},
                   [op |-> "insert", found |-> r.entry # NULL, swapped |-> FALSE])
  IN  /\ ret.op # "crashed"
      /\ Cardinality(stored \cup {point}) <= MaxStored
      /\ Inserted(tree_insert(tree, point, value, z), ph2_insert(ph2, point, z))

Remove(point) ==
  /\ ret.op # "crashed"
  /\ Outcome(Normalize(tree_remove(tree, point)), ph2_remove(ph2, point),
             stored \ {point},
             [op |-> "remove", found |-> tree_find(tree, point) # NULL,
              swapped |-> FALSE])

\* window_query_create and tree_query_window, ph2_query_set and ph2_query
Query(min, max) ==
  LET Queried(q, p) ==
        Outcome(tree, ph2, stored,
                [op |-> "query",
                 found |-> q.entries # <<>> \/ p.found # <<>>,
                 swapped |-> \E dimension \in 1 .. DIMENSIONS :
                               max[dimension] < min[dimension]])
  IN  /\ ret.op # "crashed"
      /\ Queried(tree_query_window(tree, window_query_create(min, max)),
                 ph2_query(ph2, ph2_query_set(min, max)))

Next ==
  \/ \E point \in Points, value \in Values, z \in ClzZero : Insert(point, value, z)
  \/ \E point \in Points : Remove(point)
  \/ \E min \in QueryCorners, max \in QueryCorners : Query(min, max)

Spec == Init /\ [][Next]_vars

(***************************************************************************)
(* Calls with points that lie three levels deep: their second coordinates  *)
(* differ at bits BIT_WIDTH - 3 and BIT_WIDTH - 2, so that two of them     *)
(* share a node which has a node of its own between it and the root.  Only *)
(* stored points are removed.                                              *)
(***************************************************************************)
\* at most this many of the deep points are stored at a time
MaxDeep == 3

DeepKeys == {0, 2 ^ (BIT_WIDTH - 3), 2 ^ (BIT_WIDTH - 2)}

DeepPoints == {<<x, y>> : x \in {0, 1}, y \in DeepKeys}

DeepInsert(point, value, z) ==
  LET Inserted(r, c) ==
        /\ \A e \in DOMAIN r.t.entries : Len(r.t.entries[e].elements) <= MaxElements
        /\ Outcome(Normalize(r.t), c.t, stored \cup {point},
                   [op |-> "insert", found |-> r.entry # NULL, swapped |-> FALSE])
  IN  /\ ret.op # "crashed"
      /\ Cardinality(stored \cup {point}) <= MaxDeep
      /\ Inserted(tree_insert(tree, point, value, z), ph2_insert(ph2, point, z))

DeepRemove(point) ==
  /\ point \in stored
  /\ Remove(point)

NextDeep ==
  \/ \E point \in DeepPoints, value \in Values, z \in ClzZero : DeepInsert(point, value, z)
  \/ \E point \in DeepPoints : DeepRemove(point)

SpecDeep == Init /\ [][NextDeep]_vars


(***************************************************************************)
(* Properties.                                                             *)
(***************************************************************************)
\* the points of the entries a query of the dense tree pushed
VisitedPoints(t, query) ==
  {t.entries[query.entries[i]].point : i \in 1 .. Len(query.entries)}

\* the points of the entries a sequence of compact entries holds
FoundPoints(found) == {found[i].point : i \in 1 .. Len(found)}

FullMin == [dimension \in 1 .. DIMENSIONS |-> 0]

FullMax == [dimension \in 1 .. DIMENSIONS |-> KEY_MAX]

InBox(point, min, max) ==
  \A iter \in 1 .. DIMENSIONS : min[iter] <= point[iter] /\ point[iter] <= max[iter]

C1_Dense ==
  \A point \in Points, value \in Values, z \in ClzZero :
    LET r == tree_insert(tree, point, value, z)
    IN  /\ r.entry # NULL
        /\ r.t.entries[r.entry].point = point
        /\ tree_find(r.t, point) = r.entry

C1_Compact ==
  \A point \in Points, z \in ClzZero :
    LET c == ph2_insert(ph2, point, z)
        f == ph2_find_entry(c.t, point)
    IN  /\ c.element # NULL
        /\ c.path # <<>>
        /\ GetAt(c.t.root, c.path).point = point
        /\ ~f.ub
        /\ f.path = c.path
        /\ ph2_find(c.t, point).element = c.element

\* C1: in every reachable state and for every point P, insert(P) returns an
\* entry whose stored point is P, and find(P) right after returns that entry
C1_InsertThenFind == ret.op # "crashed" => C1_Dense /\ C1_Compact

C2_Dense ==
  \A point \in Points \ stored :
    tree_find(tree, point) = NULL /\ ~tree_point_exists(tree, point)

C2_Compact ==
  \A point \in Points \ stored :
    ~ph2_find_entry(ph2, point).ub /\ ph2_find_entry(ph2, point).path = <<>>

\* C2: for every point that is not stored, find returns NULL and
\* tree_point_exists is false
C2_AbsentNotFound == ret.op # "crashed" => C2_Dense /\ C2_Compact

C3_Dense ==
  \A point \in Points \ stored : Normalize(tree_remove(tree, point)) = tree

C3_Compact ==
  \A point \in Points \ stored : ph2_remove(ph2, point) = ph2

\* C3: remove of a point that is not stored leaves the tree as it was
C3_RemoveAbsentNoOp == ret.op # "crashed" => C3_Dense /\ C3_Compact

C4_Dense ==
  VisitedPoints(tree, tree_query_window(tree, window_query_create(FullMin, FullMax)))
    = stored

C4_Compact ==
  /\ FoundPoints(ph2_for_each(ph2)) = stored
  /\ FoundPoints(ph2_query(ph2, ph2_query_set(FullMin, FullMax)).found) = stored

\* C4: the points a full traversal reaches are exactly the points inserted and
\* not removed since
C4_TraversalIsStored == ret.op # "crashed" => C4_Dense /\ C4_Compact

C5_Dense ==
  \A point \in Points, value \in Values, z \in ClzZero :
    tree_find(tree_remove(tree_insert(tree, point, value, z).t, point), point) = NULL

C5_Compact ==
  \A point \in Points, z \in ClzZero :
    LET f == ph2_find_entry(ph2_remove(ph2_insert(ph2, point, z).t, point), point)
    IN  ~f.ub /\ f.path = <<>>

\* C5: insert(P); remove(P); find(P) ends with not-found, from every reachable state
C5_InsertRemoveFind == ret.op # "crashed" => C5_Dense /\ C5_Compact

C6_Dense ==
  \A point \in Points, v1 \in Values, v2 \in Values, z \in ClzZero :
    LET before == tree_find(tree, point)
        held == IF point \in stored /\ before # NULL
                THEN tree.entries[before].elements ELSE <<>>
        r1 == tree_insert(tree, point, v1, z)
        r2 == tree_insert(r1.t, point, v2, z)
        all == tree_query_window(r2.t, window_query_create(FullMin, FullMax)).entries
    IN  /\ Cardinality({i \in 1 .. Len(all) : r2.t.entries[all[i]].point = point}) = 1
        /\ r2.entry = r1.entry
        /\ r2.t.entries[r2.entry].point = point
        /\ r2.t.entries[r2.entry].elements = held \o <<v1, v2>>

C6_Compact ==
  \A point \in Points, z \in ClzZero :
    LET c1 == ph2_insert(ph2, point, z)
        c2 == ph2_insert(c1.t, point, z)
        all == ph2_for_each(c2.t)
    IN  /\ Cardinality({i \in 1 .. Len(all) : all[i].point = point}) = 1
        /\ c1.created = (point \notin stored)
        /\ ~c2.created
        /\ c2.element # NULL
        /\ c2.element = c1.element

\* C6: inserting P twice leaves exactly one entry for P; the dense entry holds
\* the ids of both calls after the ids it held, the compact tree calls
\* element_create on the first insert only and returns the same element twice
C6_InsertTwice == ret.op # "crashed" => C6_Dense /\ C6_Compact

C7_Dense ==
  \A min \in Points, max \in Points :
    InBox(min, min, max) =>
      VisitedPoints(tree, tree_query_window(tree, window_query_create(min, max)))
        = {point \in stored : InBox(point, min, max)}

C7_Compact ==
  \A min \in Points, max \in Points :
    InBox(min, min, max) =>
      FoundPoints(ph2_query(ph2, ph2_query_set(min, max)).found)
        = {point \in stored : InBox(point, min, max)}

\* C7: for every box, the window query visits exactly the stored points inside it
C7_QueryIsBruteForce == ret.op # "crashed" => C7_Dense /\ C7_Compact

C8_Dense ==
  LET all == tree_query_window(tree, window_query_create(FullMin, FullMax)).entries
  IN  /\ \A i, j \in 1 .. Len(all) : all[i] = all[j] => i = j
      /\ \A point \in stored :
           Cardinality({i \in 1 .. Len(all) : tree.entries[all[i]].point = point}) = 1
      /\ Len(all) = Cardinality(stored)

C8_Compact ==
  LET all == ph2_query(ph2, ph2_query_set(FullMin, FullMax)).found
  IN  /\ \A point \in stored :
           Cardinality({i \in 1 .. Len(all) : all[i].point = point}) = 1
      /\ Len(all) = Cardinality(stored)

\* C8: a query over all of key space visits every stored entry exactly once
C8_FullQueryOnce == ret.op # "crashed" => C8_Dense /\ C8_Compact

C9_Dense ==
  /\ \A point \in Points :
       VisitedPoints(tree, tree_query_window(tree, window_query_create(point, point)))
         = (IF point \in stored THEN {point} ELSE {})
  /\ \A point \in stored, other \in Points :
       /\ InBox(point, point, other) =>
            point \in VisitedPoints(tree,
                        tree_query_window(tree, window_query_create(point, other)))
       /\ InBox(point, other, point) =>
            point \in VisitedPoints(tree,
                        tree_query_window(tree, window_query_create(other, point)))

C9_Compact ==
  /\ \A point \in Points :
       FoundPoints(ph2_query(ph2, ph2_query_set(point, point)).found)
         = (IF point \in stored THEN {point} ELSE {})
  /\ \A point \in stored, other \in Points :
       /\ InBox(point, point, other) =>
            point \in FoundPoints(ph2_query(ph2, ph2_query_set(point, other)).found)
       /\ InBox(point, other, point) =>
            point \in FoundPoints(ph2_query(ph2, ph2_query_set(other, point)).found)

\* C9: the box is closed: a stored point on the boundary of the box is visited,
\* and a box with min = max = P visits exactly the entry at P when P is stored
\* and nothing otherwise
C9_ClosedBox == ret.op # "crashed" => C9_Dense /\ C9_Compact

\* the bounds as a caller exchanges them on the axes where max < min
Exchanged(min, max) ==
  [min |-> [dimension \in 1 .. DIMENSIONS |->
              IF max[dimension] < min[dimension] THEN max[dimension] ELSE min[dimension]],
   max |-> [dimension \in 1 .. DIMENSIONS |->
              IF max[dimension] < min[dimension] THEN min[dimension] ELSE max[dimension]]]

Degenerate(min, max) == \E dimension \in 1 .. DIMENSIONS : max[dimension] < min[dimension]

C10_SetUp ==
  \A min \in Points, max \in Points :
    LET q == window_query_create(min, max)
        p == ph2_query_set(min, max)
    IN  /\ \A dimension \in 1 .. DIMENSIONS :
             /\ q.min[dimension] <= q.max[dimension]
             /\ p.min[dimension] <= p.max[dimension]
        /\ q.min = Exchanged(min, max).min /\ q.max = Exchanged(min, max).max
        /\ p.min = Exchanged(min, max).min /\ p.max = Exchanged(min, max).max

C10_Visits ==
  \A min \in QueryPoints, max \in QueryPoints :
    Degenerate(min, max) =>
      LET x == Exchanged(min, max)
      IN  /\ VisitedPoints(tree, tree_query_window(tree, window_query_create(min, max)))
               = VisitedPoints(tree,
                   tree_query_window(tree, window_query_create(x.min, x.max)))
          /\ FoundPoints(ph2_query(ph2, ph2_query_set(min, max)).found)
               = FoundPoints(ph2_query(ph2, ph2_query_set(x.min, x.max)).found)

\* C10: a window query set up with max < min on some axes has min <= max on
\* every axis afterwards, and visits the same points as the query set up with
\* the bounds of those axes exchanged
C10_DegenerateWindow == C10_SetUp /\ C10_Visits

\* a query set up with max < min on some axis has been run and has visited an entry
C10_Witness == ret.op = "query" /\ ret.swapped /\ ret.found

(***************************************************************************)
(* The shape of the trees.                                                 *)
(***************************************************************************)
\* the nodes of the dense tree the root leads to through child slots
RECURSIVE DenseReach(_, _, _)
DenseReach(t, frontier, seen) ==
  IF frontier = {} THEN seen
  ELSE DenseReach(t,
         (UNION {{t.nodes[n].children[a] : a \in Addresses} :
                   n \in {m \in frontier : ~node_is_leaf(t.nodes[m])}})
           \ ({NULL} \cup seen \cup frontier),
         seen \cup frontier)

DenseNodes == DenseReach(tree, {ROOT}, {})

\* the slots of a dense node that hold a child
LiveSlots(node) == {a \in Addresses : node.children[a] # NULL}

\* the indices of the slots of a compact node that hold its children
LiveIndices(dual) == {j \in 0 .. (Len(dual.children) - 1) : j < dual.child_count}

\* the paths of the nodes of the compact tree: the first child_count slots of
\* a node hold its children
RECURSIVE LivePaths(_, _)
LivePaths(dual, path) ==
  IF phtree_node_is_leaf(dual) THEN {path}
  ELSE {path} \cup
       UNION {LivePaths(dual.children[i + 1], Append(path, i)) :
                i \in LiveIndices(dual)}

Ph2Nodes == LivePaths(ph2.root, <<>>)

C11_Dense ==
  \A n \in DenseNodes \ {ROOT} :
    ~node_is_leaf(tree.nodes[n]) =>
      /\ Cardinality(LiveSlots(tree.nodes[n])) >= 2
      /\ tree.nodes[n].child_count >= 2

C11_Compact ==
  \A path \in Ph2Nodes \ {<<>>} :
    ~phtree_node_is_leaf(GetAt(ph2.root, path)) =>
      GetAt(ph2.root, path).child_count >= 2

\* C11: every interior node other than the root has at least 2 live children
C11_TwoChildren == C11_Dense /\ C11_Compact

C12_Dense ==
  \A n \in DenseNodes :
    \A a \in LiveSlots(tree.nodes[n]) :
      LET child == tree.nodes[n].children[a]
      IN  IF node_is_leaf(tree.nodes[n])
          THEN /\ child \in DOMAIN tree.entries
               /\ calculate_hypercube_address(tree.entries[child].point,
                                              tree.nodes[n]) = a
          ELSE /\ child \in DOMAIN tree.nodes
               /\ calculate_hypercube_address(tree.nodes[child].point,
                                              tree.nodes[n]) = a

C12_Compact ==
  \A path \in Ph2Nodes :
    LET dual == GetAt(ph2.root, path)
    IN  \A index \in LiveIndices(dual) :
          LET address == ph2_calculate_hypercube_address(
                           dual.children[index + 1].point, dual)
          IN  /\ child_active(dual, address)
              /\ child_index(dual, address) = index

\* C12: every non-root node sits in the slot of its parent that the hypercube
\* address of its prefix at the parent's postfix_length names, and every entry
\* in the slot of its leaf that the address of its point at bit 0 names
C12_SlotIsAddress == C12_Dense /\ C12_Compact

\* the points of the entries stored beneath a node of the dense tree
DenseBeneath(n) ==
  UNION {{tree.entries[tree.nodes[leaf].children[a]].point :
            a \in {b \in LiveSlots(tree.nodes[leaf]) :
                     tree.nodes[leaf].children[b] \in DOMAIN tree.entries}} :
           leaf \in {m \in DenseReach(tree, {n}, {}) : node_is_leaf(tree.nodes[m])}}

\* the points of the entries stored beneath a node of the compact tree
Ph2Beneath(dual) ==
  UNION {{GetAt(dual, path).children[index + 1].point :
            index \in LiveIndices(GetAt(dual, path))} :
           path \in {p \in LivePaths(dual, <<>>) : phtree_node_is_leaf(GetAt(dual, p))}}

\* point and prefix have the same bits above position postfix_length
SharesPrefix(point, prefix, postfix_length) ==
  ShiftPoint(point, postfix_length + 1) = ShiftPoint(prefix, postfix_length + 1)

C13_Dense ==
  \A n \in DenseNodes :
    \A point \in DenseBeneath(n) :
      SharesPrefix(point, tree.nodes[n].point, tree.nodes[n].postfix_length)

C13_Compact ==
  \A path \in Ph2Nodes :
    \A point \in Ph2Beneath(GetAt(ph2.root, path)) :
      SharesPrefix(point, GetAt(ph2.root, path).point,
                   GetAt(ph2.root, path).postfix_length)

\* C13: every entry beneath a node agrees with the node's prefix on all bits
\* above the node's postfix_length
C13_PrefixShared == C13_Dense /\ C13_Compact

\* the parent of a dense node is the node whose slot holds it, not the node
\* its parent pointer names
C14_Dense ==
  \A n \in DenseNodes :
    ~node_is_leaf(tree.nodes[n]) =>
      \A a \in LiveSlots(tree.nodes[n]) :
        tree.nodes[n].children[a] \in DOMAIN tree.nodes =>
          tree.nodes[tree.nodes[n].children[a]].infix_length
            = (tree.nodes[n].postfix_length
                 - tree.nodes[tree.nodes[n].children[a]].postfix_length) - 1

C14_Compact ==
  \A path \in Ph2Nodes :
    ~phtree_node_is_leaf(GetAt(ph2.root, path)) =>
      \A index \in LiveIndices(GetAt(ph2.root, path)) :
        GetAt(ph2.root, path).children[index + 1].infix_length
          = (GetAt(ph2.root, path).postfix_length
               - GetAt(ph2.root, path).children[index + 1].postfix_length) - 1

\* C14: the infix_length of every non-root node is its parent's postfix_length
\* minus its own postfix_length minus 1
C14_InfixLength == C14_Dense /\ C14_Compact

C15_Dense == tree_empty(tree) <=> stored = {}

C15_Compact == ph2_empty(ph2) <=> stored = {}

\* C15: empty(tree) is true exactly when no inserted point is left unremoved
C15_EmptyIffNoneStored == ret.op # "crashed" => C15_Dense /\ C15_Compact

\* the root is where tree_create / ph2_initialize put it
C16_Root ==
  /\ ROOT \in DOMAIN tree.nodes
  /\ ~tree.nodes[ROOT].freed
  /\ node_is_root(tree.nodes[ROOT])
  /\ tree.nodes[ROOT].postfix_length = BIT_WIDTH - 1
  /\ phtree_node_is_root(ph2.root)

\* with nothing stored, every insert gives an entry of its point that find finds
C16_Dense ==
  stored = {} =>
    \A point \in Points, value \in Values, z \in ClzZero :
      LET r == tree_insert(tree, point, value, z)
      IN  /\ r.entry # NULL
          /\ r.t.entries[r.entry].point = point
          /\ tree_find(r.t, point) = r.entry

C16_Compact ==
  stored = {} =>
    \A point \in Points, z \in ClzZero :
      LET c == ph2_insert(ph2, point, z)
      IN  /\ c.element # NULL
          /\ c.path # <<>>
          /\ GetAt(c.t.root, c.path).point = point
          /\ ~ph2_find_entry(c.t, point).ub
          /\ ph2_find_entry(c.t, point).path = c.path

C17_Find ==
  \A point \in Points :
    /\ ~ph2_find(ph2, point).ub
    /\ tree_point_exists(tree, point) <=> ph2_find(ph2, point).element # NULL

C17_Empty == tree_empty(tree) <=> ph2_empty(ph2)

C17_Query ==
  \A min \in Points, max \in Points :
    InBox(min, min, max) =>
      VisitedPoints(tree, tree_query_window(tree, window_query_create(min, max)))
        = FoundPoints(ph2_query(ph2, ph2_query_set(min, max)).found)

\* C17: the dense and the compact variant, given the same calls, agree on
\* found or not found for every find, on empty() and on the points every query
\* visits
C17_VariantsAgree == ret.op # "crashed" => C17_Find /\ C17_Empty /\ C17_Query


(***************************************************************************)
(* Allocation failure during an insert.                                    *)
(*                                                                         *)
(* fail names the allocation that returns NULL the first time the call     *)
(* asks for it: "node" is the calloc of node_create, "entry" the calloc of *)
(* node_add_entry, "array" the calloc of node_initialize or the realloc of *)
(* add_child in the compact tree.  The operators return the memory as it   *)
(* is when the call ends, failed (the allocation was asked for), fault (a  *)
(* NULL pointer was dereferenced) and reported (the call returned NULL).   *)
(***************************************************************************)
AllocationSites == {"node", "entry", "array"}

\* node_add_entry: new_entry is written through without a check
node_add_entry_nomem(t, node, point, value, fail) ==
  IF t.nodes[node].children[calculate_hypercube_address(point, t.nodes[node])] = NULL
     /\ fail = "entry"
  THEN [t |-> t, failed |-> TRUE, fault |-> TRUE]
  ELSE [t |-> node_add_entry(t, node, point, value), failed |-> FALSE, fault |-> FALSE]

\* node_try_add on an empty slot: node_create returns NULL, or its
\* node_add_entry faults with the new node not linked in yet; the NULL is
\* stored in the slot, counted, and handed to the loop of tree_insert, which
\* reads its postfix_length
node_try_add_nomem(t, node, address, point, fail) ==
  IF fail = "node"
  THEN [t |-> [t EXCEPT !.nodes[node].children[address] = NULL,
                        !.nodes[node].child_count = ToU8(@ + 1)],
        failed |-> TRUE, fault |-> TRUE]
  ELSE [t |-> t, failed |-> fail = "entry", fault |-> fail = "entry"]

\* node_insert_split: the NULL of node_create is stored in the slot of
\* sub_node, then new_node->children is written
node_insert_split_nomem(t, node, point) ==
  [t |-> [t EXCEPT !.nodes[node].children[
                      calculate_hypercube_address(point, t.nodes[node])] = NULL],
   failed |-> TRUE, fault |-> TRUE]

RECURSIVE tree_insert_nomem_loop(_, _, _, _, _, _)
tree_insert_nomem_loop(t, current_node, point, value, z, fail) ==
  LET node == t.nodes[current_node]
      address == calculate_hypercube_address(point, node)
      sub_node == node.children[address]
      Went(r) == tree_insert_nomem_loop(r.t, r.node, point, value, z, fail)
      Collided(sub, max_conflicting_bits) ==
        IF sub.infix_length > 0
           /\ max_conflicting_bits > (IF node_is_leaf(sub) THEN 1
                                      ELSE sub.postfix_length + 1)
        THEN IF fail = "node"
             THEN node_insert_split_nomem(t, current_node, point)
             ELSE Went(node_insert_split(t, current_node, sub_node, point,
                                         max_conflicting_bits, value))
        ELSE IF node_is_leaf(sub)
        THEN node_add_entry_nomem(t, sub_node, point, value, fail)
        ELSE Went([t |-> t, node |-> sub_node])
  IN  IF node_is_leaf(node)
      THEN [t |-> t, failed |-> FALSE, fault |-> FALSE]
      ELSE IF sub_node = NULL
      THEN node_try_add_nomem(t, current_node, address, point, fail)
      ELSE Collided(t.nodes[sub_node],
                    number_of_diverging_bits(point, t.nodes[sub_node].point, z))

\* tree_insert has no path that returns after a failed allocation
tree_insert_nomem(t, point, value, z, fail) ==
  LET Ended(r) == [t |-> r.t, failed |-> r.failed, fault |-> r.fault,
                   reported |-> FALSE]
  IN  IF fail \in {"node", "entry"}
      THEN Ended(tree_insert_nomem_loop(t, ROOT, point, value, z, fail))
      ELSE [t |-> t, failed |-> FALSE, fault |-> FALSE, reported |-> FALSE]

\* node_initialize whose phtree_calloc returned NULL
node_initialize_nomem(infix_length, postfix_length, point) ==
  [node_initialize(infix_length, postfix_length, point) EXCEPT !.children = <<>>]

\* add_child whose phtree_realloc returned NULL: children is overwritten with
\* it, then memmove and memset go through it
add_child_nomem(dual, address) ==
  [dual |-> [dual EXCEPT !.children = <<>>,
                         !.child_capacity = ToI8(@ + 4),
                         !.active_children =
                            ToU8(BitOr(@, 2 ^ (CHILD_SHIFT - address)))],
   failed |-> TRUE, fault |-> TRUE]

\* add_child on a node whose children is NULL and that has capacity left:
\* memset writes the slot at NULL + index
add_child_null(dual, address) ==
  [dual EXCEPT !.active_children = ToU8(BitOr(@, 2 ^ (CHILD_SHIFT - address)))]

\* node_try_add on an inactive address
ph2_node_try_add_nomem(dual, address, point) ==
  LET Opened(a) ==
        [dual |-> [a.dual EXCEPT !.children[a.index + 1] =
                     add_child_null(
                       node_initialize_nomem(dual.postfix_length - 1, 0, point),
                       ph2_calculate_hypercube_address(point,
                         node_initialize_nomem(dual.postfix_length - 1, 0, point)))],
         failed |-> TRUE, fault |-> TRUE]
  IN  IF dual.child_count >= dual.child_capacity
      THEN add_child_nomem(dual, address)
      ELSE Opened(add_child(dual, address))

\* node_insert_split: child is initialized again without an array, then
\* add_child writes in it
ph2_node_insert_split_nomem(parent, child, point, max_conflicting_bits) ==
  LET Made(split) ==
        add_child_null(split, ph2_calculate_hypercube_address(child.point, split))
  IN  Made(node_initialize_nomem(parent.postfix_length - max_conflicting_bits,
                                 max_conflicting_bits - 1, point))

\* node_add_entry in a leaf: add_child allocates only when the array is full
ph2_node_add_entry_nomem(dual, point) ==
  LET address == ph2_calculate_hypercube_address(point, dual)
      Added(a) == [dual |-> a.dual, failed |-> FALSE, fault |-> FALSE]
  IN  IF child_active(dual, address)
      THEN [dual |-> dual, failed |-> FALSE, fault |-> FALSE]
      ELSE IF dual.child_count >= dual.child_capacity
      THEN add_child_nomem(dual, address)
      ELSE Added(ph2_node_add_entry(dual, point))

RECURSIVE ph2_insert_nomem_loop(_, _, _)
ph2_insert_nomem_loop(current_dual, point, z) ==
  LET address == ph2_calculate_hypercube_address(point, current_dual)
      index == child_index(current_dual, address)
      Below(r) ==
        [dual |-> [current_dual EXCEPT !.children[index + 1] = r.dual],
         failed |-> r.failed, fault |-> r.fault]
      Collided(sub_node, max_conflicting_bits) ==
        IF sub_node.infix_length > 0
           /\ max_conflicting_bits > sub_node.postfix_length + 1
        THEN Below([dual |-> ph2_node_insert_split_nomem(current_dual, sub_node, point,
                                                         max_conflicting_bits),
                    failed |-> TRUE, fault |-> TRUE])
        ELSE IF phtree_node_is_leaf(sub_node)
        THEN Below(ph2_node_add_entry_nomem(sub_node, point))
        ELSE Below(ph2_insert_nomem_loop(sub_node, point, z))
      Found(sub_node) ==
        Collided(sub_node, ph2_number_of_diverging_bits(point, sub_node.point, z))
  IN  IF phtree_node_is_leaf(current_dual)
      THEN [dual |-> current_dual, failed |-> FALSE, fault |-> FALSE]
      ELSE IF ~child_active(current_dual, address)
      THEN ph2_node_try_add_nomem(current_dual, address, point)
      ELSE Found(current_dual.children[index + 1])

\* ph2_insert has no path that returns after a failed allocation
ph2_insert_nomem(t, point, z, fail) ==
  LET Ended(r) == [t |-> [root |-> r.dual, ub |-> t.ub],
                   failed |-> r.failed, fault |-> r.fault, reported |-> FALSE]
  IN  IF fail = "array"
      THEN Ended(ph2_insert_nomem_loop(t.root, point, z))
      ELSE [t |-> t, failed |-> FALSE, fault |-> FALSE, reported |-> FALSE]

\* an insert during which the allocator is out of memory at the site fail:
\* every such call writes or reads through NULL, which ends the process
InsertNoMemory(point, value, z, fail) ==
  LET Ended(r, c) ==
        /\ r.failed \/ c.failed
        /\ r.fault \/ c.fault
        /\ calls < MaxCalls
        /\ calls' = calls + 1
        /\ ret' = [op |-> "crashed", found |-> FALSE, swapped |-> FALSE]
        /\ UNCHANGED <<tree, ph2, stored, input, key>>
  IN  /\ ret.op # "crashed"
      /\ Cardinality(stored \cup {point}) <= MaxStored
      /\ Ended(tree_insert_nomem(tree, point, value, z, fail),
               ph2_insert_nomem(ph2, point, z, fail))

NextAlloc ==
  \/ Next
  \/ \E point \in Points, value \in Values, z \in ClzZero, fail \in AllocationSites :
       InsertNoMemory(point, value, z, fail)

SpecAlloc == Init /\ [][NextAlloc]_vars

C18_Dense ==
  \A point \in Points, z \in ClzZero, fail \in AllocationSites :
    LET r == tree_insert_nomem(tree, point, 0, z, fail)
    IN  r.failed => ~r.fault /\ r.reported /\ r.t = tree

C18_Compact ==
  \A point \in Points, z \in ClzZero :
    LET c == ph2_insert_nomem(ph2, point, z, "array")
    IN  c.failed => ~c.fault /\ c.reported /\ c.t = ph2

\* C18: an insert during which a node, entry or child-array allocation returns
\* NULL ends by returning a failure result, and leaves every child slot,
\* child_count and active_children bit of the tree as it was before the call.
C18_AllocationFailure ==
  ret.op # "crashed" => C18_Dense /\ C18_Compact


(***************************************************************************)
(* The key encoders.                                                       *)
(*                                                                         *)
(* An encoder is handed an object of the key's width: value_to_key a       *)
(* key_type_signed_t, phtree_int32_to_key and phtree_float_to_key a        *)
(* pointer to an int32_t or a float.  The object is modelled by its bit    *)
(* pattern, which is what memcpy copies into the key.                      *)
(***************************************************************************)
PHTREE_BIT_WIDTH == BIT_WIDTH

PHTREE_KEY_MAX == (2 ^ PHTREE_BIT_WIDTH) - 1

PHTREE_SIGN_BIT == 2 ^ (PHTREE_BIT_WIDTH - 1)

Patterns == 0 .. KEY_MAX

\* the two's-complement integer with these bits
ToSigned(bits) == IF bits >= 2 ^ (BIT_WIDTH - 1) THEN bits - (2 ^ BIT_WIDTH) ELSE bits

\* a value_to_key that returns the bits as memcpy left them
value_to_key_as_copied(a) == ToKey(a)

value_to_key(a) == ToKey(BitXor(ToKey(a), 2 ^ (BIT_WIDTH - 1)))

phtree_int32_to_key(bits) ==
  BitXor(bits % (2 ^ PHTREE_BIT_WIDTH), 2 ^ (PHTREE_BIT_WIDTH - 1)) % (2 ^ PHTREE_BIT_WIDTH)

phtree_float_to_key(bits) ==
  IF BitAnd(bits, PHTREE_SIGN_BIT) # 0
  THEN BitAnd(((PHTREE_KEY_MAX - bits) + 1) % (2 ^ PHTREE_BIT_WIDTH),
              PHTREE_KEY_MAX \div 2)
  ELSE BitOr(bits, PHTREE_SIGN_BIT)

InitKey ==
  /\ InitTrees
  /\ input \in Patterns \X Patterns
  /\ key = NoKey

ValueToKey ==
  /\ key' = [f |-> "value_to_key",
             a |-> value_to_key(ToSigned(input[1])),
             b |-> value_to_key(ToSigned(input[2]))]
  /\ UNCHANGED <<tree, ph2, stored, ret, calls, input>>

Int32ToKey ==
  /\ key' = [f |-> "phtree_int32_to_key",
             a |-> phtree_int32_to_key(input[1]),
             b |-> phtree_int32_to_key(input[2])]
  /\ UNCHANGED <<tree, ph2, stored, ret, calls, input>>

FloatToKey ==
  /\ key' = [f |-> "phtree_float_to_key",
             a |-> phtree_float_to_key(input[1]),
             b |-> phtree_float_to_key(input[2])]
  /\ UNCHANGED <<tree, ph2, stored, ret, calls, input>>

NextKey ==
  \/ ValueToKey
  \/ Int32ToKey
  \/ FloatToKey

SpecKey == InitKey /\ [][NextKey]_vars

\* k is bits with the top bit inverted and every other bit as it was
SignFlipped(bits, k) ==
  /\ k \in Patterns
  /\ \A i \in 0 .. (BIT_WIDTH - 1) :
       Bit(k, i) = IF i = BIT_WIDTH - 1 THEN 1 - Bit(bits, i) ELSE Bit(bits, i)

\* C19: value_to_key and phtree_int32_to_key return the two's-complement bits
\* of the integer with the sign bit alone inverted, and for signed a < b the
\* key of a is below the key of b as unsigned integers.
C19_SignedOrderKept ==
  key.f \in {"value_to_key", "phtree_int32_to_key"} =>
    /\ SignFlipped(input[1], key.a)
    /\ SignFlipped(input[2], key.b)
    /\ ToSigned(input[1]) < ToSigned(input[2]) => key.a < key.b

\* an encoder has been given a negative and a non-negative integer
C19_Witness ==
  /\ key.f \in {"value_to_key", "phtree_int32_to_key"}
  /\ ToSigned(input[1]) < 0
  /\ ToSigned(input[2]) >= 0
  /\ key.a < key.b

\* C20: phtree_float_to_key gives the bit pattern of -0 (the sign bit alone)
\* the key it gives the bit pattern of +0 (no bit set).
C20_NegativeZero ==
  key.f = "phtree_float_to_key" /\ input = <<PHTREE_SIGN_BIT, 0>> => key.a = key.b


(***************************************************************************)
(* What a split, a collapse and a clear leave behind.                      *)
(***************************************************************************)
\* the node and the slot of it whose child tree_insert of point splits off:
\* the walk of tree_insert down to the first collision that asks for a split
RECURSIVE DenseSplitAt(_, _, _, _)
DenseSplitAt(t, n, point, z) ==
  LET node == t.nodes[n]
      a    == calculate_hypercube_address(point, node)
      Under(sub, d) ==
        IF sub.infix_length > 0
           /\ d > (IF node_is_leaf(sub) THEN 1 ELSE sub.postfix_length + 1)
        THEN {<<n, a>>}
        ELSE IF node_is_leaf(sub) THEN {}
        ELSE DenseSplitAt(t, node.children[a], point, z)
  IN  IF node_is_leaf(node) \/ node.children[a] = NULL THEN {}
      ELSE Under(t.nodes[node.children[a]],
                 number_of_diverging_bits(point, t.nodes[node.children[a]].point, z))

\* the path of the node and the index in it of the child ph2_insert of point
\* splits off
RECURSIVE Ph2SplitAt(_, _, _, _)
Ph2SplitAt(dual, path, point, z) ==
  LET a     == ph2_calculate_hypercube_address(point, dual)
      index == child_index(dual, a)
      Under(sub, d) ==
        IF sub.infix_length > 0 /\ d > sub.postfix_length + 1
        THEN {<<path, index>>}
        ELSE IF phtree_node_is_leaf(sub) THEN {}
        ELSE Ph2SplitAt(sub, Append(path, index), point, z)
  IN  IF phtree_node_is_leaf(dual) \/ ~child_active(dual, a) THEN {}
      ELSE Under(dual.children[index + 1],
                 ph2_number_of_diverging_bits(point, dual.children[index + 1].point, z))

\* what C21 asks of the dense tree after tree_insert of point has split the
\* child in slot a of node n
DenseSplitDone(r, n, a, point, z) ==
  LET N == tree.nodes[n]
      C == N.children[a]
      d == number_of_diverging_bits(point, tree.nodes[C].point, z)
      s == r.t.nodes[n].children[a]
  IN  /\ s \in DOMAIN r.t.nodes
      /\ s \notin DOMAIN tree.nodes
      /\ LET S  == r.t.nodes[s]
             aC == calculate_hypercube_address(tree.nodes[C].point, S)
             aP == calculate_hypercube_address(point, S)
         IN  /\ S.postfix_length = d - 1
             /\ S.infix_length = N.postfix_length - d
             /\ r.t.nodes[n].child_count = N.child_count
             /\ S.child_count = 2
             /\ LiveSlots(S) = {aC, aP}
             /\ aC # aP
             /\ S.children[aC] = C
             /\ S.children[aP] \in DOMAIN r.t.nodes \ DOMAIN tree.nodes
             /\ node_is_leaf(r.t.nodes[S.children[aP]])
             /\ r.entry # NULL
             /\ r.entry \in {r.t.nodes[S.children[aP]].children[b] : b \in Addresses}
             /\ r.t.entries[r.entry].point = point
             /\ r.t.nodes[C].infix_length
                  = (S.postfix_length - r.t.nodes[C].postfix_length) - 1

C21_Dense ==
  \A point \in Points \cup DeepPoints, value \in Values, z \in ClzZero :
    \A at \in DenseSplitAt(tree, ROOT, point, z) :
      DenseSplitDone(tree_insert(tree, point, value, z), at[1], at[2], point, z)

\* the same of the compact tree, where the split node takes the array slot the
\* child was in and the child is copied beneath it
Ph2SplitDone(c, path, index, point, z) ==
  LET N  == GetAt(ph2.root, path)
      C  == N.children[index + 1]
      d  == ph2_number_of_diverging_bits(point, C.point, z)
      Nn == GetAt(c.t.root, path)
      S  == Nn.children[index + 1]
      aC == ph2_calculate_hypercube_address(C.point, S)
      aP == ph2_calculate_hypercube_address(point, S)
  IN  /\ ~c.t.ub \/ ph2.ub
      /\ S.postfix_length = d - 1
      /\ S.infix_length = N.postfix_length - d
      /\ Nn.child_count = N.child_count
      /\ Nn.active_children = N.active_children
      /\ S.child_count = 2
      /\ S.active_children = BitOr(2 ^ (CHILD_SHIFT - aC), 2 ^ (CHILD_SHIFT - aP))
      /\ aC # aP
      /\ S.children[child_index(S, aC) + 1]
           = [C EXCEPT !.infix_length = (S.postfix_length - C.postfix_length) - 1]
      /\ phtree_node_is_leaf(S.children[child_index(S, aP) + 1])
      /\ S.children[child_index(S, aP) + 1].child_count = 1
      /\ c.path = path \o <<index, child_index(S, aP), 0>>
      /\ GetAt(c.t.root, c.path).point = point

C21_Compact ==
  \A point \in Points \cup DeepPoints, z \in ClzZero :
    \A at \in Ph2SplitAt(ph2.root, <<>>, point, z) :
      Ph2SplitDone(ph2_insert(ph2, point, z), at[1], at[2], point, z)

\* C21: when an insert splits between a node N and its child C, with d the
\* number of diverging bits of the point and C's prefix, then on return a new
\* node S with postfix_length d - 1 and infix_length N.postfix_length - d is in
\* the slot of N that held C, N's child_count is as before, S has exactly the 2
\* children C and a new leaf holding the point, in different slots, and
\* C.infix_length is S.postfix_length - C.postfix_length - 1.
C21_SplitShape == ret.op # "crashed" => C21_Dense /\ C21_Compact


\* C22: in the dense tree the parent pointer of every node other than the
\* root names the node whose slot holds it, and the parent pointer of every
\* entry names the leaf whose slot holds it, also after a split has moved a
\* child beneath a new node and after a collapse has moved a child up.
C22_ParentIsHolder ==
  \A n \in DenseNodes :
    \A a \in LiveSlots(tree.nodes[n]) :
      IF node_is_leaf(tree.nodes[n])
      THEN /\ tree.nodes[n].children[a] \in DOMAIN tree.entries
           /\ tree.entries[tree.nodes[n].children[a]].parent = n
      ELSE /\ tree.nodes[n].children[a] \in DOMAIN tree.nodes
           /\ tree.nodes[tree.nodes[n].children[a]].parent = n


C23_Dense ==
  \A n \in DenseNodes :
    tree.nodes[n].child_count = Cardinality(LiveSlots(tree.nodes[n]))

C23_Compact ==
  \A path \in Ph2Nodes :
    /\ GetAt(ph2.root, path).child_count
         = popcount(GetAt(ph2.root, path).active_children)
    /\ GetAt(ph2.root, path).child_count <= GetAt(ph2.root, path).child_capacity

\* C23: the child_count of every node, the root's included, is the number of
\* its live children: of the non-NULL slots of children[] in the dense tree,
\* of the bits set in active_children in the compact tree, where it is at most
\* child_capacity.
C23_CountIsLive == C23_Dense /\ C23_Compact


(***************************************************************************)
(* tree_clear and ph2_clear.                                               *)
(***************************************************************************)
RECURSIVE tree_free_nodes(_, _)
RECURSIVE tree_free_children(_, _, _)

\* the for loops of tree_free_nodes: entry_free on the entries of a leaf,
\* tree_free_nodes on the children of another node
\* ub: an entry is freed that has been freed before
tree_free_children(t, node, iter) ==
  LET child == t.nodes[node].children[iter]
      Next1(t1) == tree_free_children(t1, node, iter + 1)
  IN  IF iter >= NODE_CHILD_COUNT THEN t
      ELSE IF child = NULL THEN Next1(t)
      ELSE IF node_is_leaf(t.nodes[node])
      THEN Next1([t EXCEPT
                    !.entries = [e \in (DOMAIN t.entries) \ {child} |-> t.entries[e]],
                    !.ub = @ \/ child \notin DOMAIN t.entries])
      ELSE Next1(tree_free_nodes(t, child))

\* ub: the node read and freed has been freed before
tree_free_nodes(t, node) ==
  LET Freed(t1) == [t1 EXCEPT !.nodes[node].freed = TRUE,
                              !.ub = @ \/ t.nodes[node].freed]
  IN  IF node = NULL THEN t ELSE Freed(tree_free_children(t, node, 0))

\* the loop of tree_clear over the slots of the root
RECURSIVE tree_clear_loop(_, _)
tree_clear_loop(t, iter) ==
  LET Emptied(t1) ==
        tree_clear_loop([t1 EXCEPT !.nodes[ROOT].children[iter] = NULL], iter + 1)
  IN  IF iter >= NODE_CHILD_COUNT THEN t
      ELSE IF t.nodes[ROOT].children[iter] # NULL
      THEN Emptied(tree_free_nodes(t, t.nodes[ROOT].children[iter]))
      ELSE tree_clear_loop(t, iter + 1)

\* root.child_count is not assigned
tree_clear(t) == tree_clear_loop(t, 0)

\* free_nodes: entry_free clears the element of each of the first child_count
\* entries of a leaf; the arrays are freed and keep their bytes
RECURSIVE free_nodes(_)
free_nodes(dual) ==
  [dual EXCEPT !.children =
     [j \in 1 .. Len(dual.children) |->
        IF j - 1 >= dual.child_count THEN dual.children[j]
        ELSE IF phtree_node_is_leaf(dual)
        THEN [dual.children[j] EXCEPT !.element = NULL]
        ELSE free_nodes(dual.children[j])]]

\* free_nodes reads past the end of an array
RECURSIVE FreeNodesUb(_)
FreeNodesUb(dual) ==
  \/ dual.child_count > Len(dual.children)
  \/ /\ ~phtree_node_is_leaf(dual)
     /\ \E j \in 1 .. Len(dual.children) :
          j - 1 < dual.child_count /\ FreeNodesUb(dual.children[j])

\* the root's array is freed, the pointer to it stays in root.node.children
ph2_clear(t) ==
  LET Reset(root) ==
        [root EXCEPT !.active_children = 0,
                     !.child_count = 0,
                     !.child_capacity = 0]
  IN  [root |-> Reset([t.root EXCEPT !.children =
                         [j \in 1 .. Len(t.root.children) |->
                            IF j - 1 >= t.root.child_count THEN t.root.children[j]
                            ELSE free_nodes(t.root.children[j])]]),
       ub |-> t.ub \/ t.root.child_count > Len(t.root.children)
                   \/ \E j \in 1 .. Len(t.root.children) :
                        j - 1 < t.root.child_count /\ FreeNodesUb(t.root.children[j])]

Clear ==
  /\ ret.op # "crashed"
  /\ Outcome(Normalize(tree_clear(tree)), ph2_clear(ph2), {},
             [op |-> "clear", found |-> FALSE, swapped |-> FALSE])

NextClear ==
  \/ Next
  \/ Clear

SpecClear == Init /\ [][NextClear]_vars


(***************************************************************************)
(* The packed child array of one compact node.                             *)
(*                                                                         *)
(* add_child, ph2_remove_child and ph2_remove_entry are called on the root *)
(* node.  add_child is called for an address that is not active, as        *)
(* node_try_add and node_add_entry call it; ph2_remove_child for an active *)
(* address and ph2_remove_entry for any address, as ph2_remove calls them, *)
(* which tests child_active on its way down to the leaf and not in the     *)
(* leaf.  The child written into the slot                                  *)
(* add_child returns carries, as its element, a tag made of the number of  *)
(* the call and the address it was added at; stored holds the tags of the  *)
(* children added and not removed since.                                   *)
(***************************************************************************)
TagOf(address, call) == (call * NODE_CHILD_MAX) + address

AddressOf(tag) == tag % NODE_CHILD_MAX

NodeAddChild(address) ==
  LET Added(a) ==
        Outcome(tree,
                [root |-> [a.dual EXCEPT !.children[a.index + 1] =
                             [ZeroDual EXCEPT !.element = TagOf(address, calls + 1)]],
                 ub |-> ph2.ub \/ a.ub],
                stored \cup {TagOf(address, calls + 1)},
                [op |-> "add_child", found |-> FALSE, swapped |-> FALSE])
  IN  /\ ret.op # "crashed"
      /\ ~child_active(ph2.root, address)
      /\ Added(add_child(ph2.root, address))

NodeRemoveChild(address) ==
  LET Removed(r) ==
        Outcome(tree, [root |-> r.dual, ub |-> ph2.ub \/ r.ub],
                {c \in stored : AddressOf(c) # address},
                [op |-> "ph2_remove_child",
                 found |-> child_active(ph2.root, address), swapped |-> FALSE])
  IN  /\ ret.op # "crashed"
      /\ child_active(ph2.root, address)
      /\ Removed(ph2_remove_child(ph2.root, address))

NodeRemoveEntry(address) ==
  LET Removed(r) ==
        Outcome(tree, [root |-> r.dual, ub |-> ph2.ub \/ r.ub],
                {c \in stored : AddressOf(c) # address},
                [op |-> "ph2_remove_entry",
                 found |-> child_active(ph2.root, address), swapped |-> FALSE])
  IN  /\ ret.op # "crashed"
      /\ Removed(ph2_remove_entry(ph2.root, address))

NextNode ==
  \/ \E address \in Addresses : NodeAddChild(address)
  \/ \E address \in Addresses : NodeRemoveChild(address)
  \/ \E address \in Addresses : NodeRemoveEntry(address)

SpecNode == Init /\ [][NextNode]_vars

\* the children in the array are in the order of the addresses they were added at
C24_Ordered ==
  \A i \in LiveIndices(ph2.root), j \in LiveIndices(ph2.root) :
    i < j =>
      /\ ph2.root.children[i + 1].element # NULL
      /\ ph2.root.children[j + 1].element # NULL
      /\ AddressOf(ph2.root.children[i + 1].element)
           < AddressOf(ph2.root.children[j + 1].element)

\* every active address has, at its child_index, the child added there
C24_Indexed ==
  \A address \in Addresses :
    child_active(ph2.root, address) =>
      /\ child_index(ph2.root, address) >= 0
      /\ child_index(ph2.root, address) < ph2.root.child_count
      /\ child_index(ph2.root, address) < Len(ph2.root.children)
      /\ ph2.root.children[child_index(ph2.root, address) + 1].element \in stored
      /\ AddressOf(ph2.root.children[child_index(ph2.root, address) + 1].element)
           = address

\* C24: after any sequence of add_child, ph2_remove_child and ph2_remove_entry
\* on a compact node, its child array is ordered by increasing hypercube
\* address, and for every address whose bit is set in active_children the
\* slot at child_index of the address holds the child added at that address
\* and is one of the first child_count slots.
C24_PackedArray == ret.op # "crashed" => C24_Ordered /\ C24_Indexed


C25_Dense ==
  /\ tree_empty(tree)
  /\ \A point \in Points : tree_find(tree, point) = NULL
  /\ \A point \in Points, value \in Values, z \in ClzZero :
       LET r == tree_insert(tree, point, value, z)
       IN  /\ ~r.t.ub
           /\ r.entry # NULL
           /\ r.t.entries[r.entry].point = point
           /\ tree_find(r.t, point) = r.entry

C25_Compact ==
  /\ ph2_empty(ph2)
  /\ \A point \in Points :
       /\ ~ph2_find(ph2, point).ub
       /\ ph2_find(ph2, point).element = NULL
  /\ \A point \in Points, z \in ClzZero :
       LET c == ph2_insert(ph2, point, z)
       IN  /\ ~c.t.ub
           /\ c.element # NULL
           /\ c.path # <<>>
           /\ GetAt(c.t.root, c.path).point = point
           /\ ~ph2_find_entry(c.t, point).ub
           /\ ph2_find_entry(c.t, point).path = c.path

\* C25: after tree_clear or ph2_clear on a tree holding any set of points the
\* tree is empty and usable: empty() is true, find of every point is
\* not-found, and an insert of a point followed by find of it gives the
\* point's entry.
C25_ClearedIsUsable == ret.op = "clear" /\ ~ph2.ub /\ ~tree.ub => C25_Dense /\ C25_Compact


(***************************************************************************)
(* The prefix of a node.                                                   *)
(***************************************************************************)
\* prefix has bit p set, the bits below p clear and the bits above p of point
Canonical(prefix, p, point) ==
  \A dimension \in 1 .. DIMENSIONS, i \in 0 .. (BIT_WIDTH - 1) :
    Bit(prefix[dimension], i) = IF i < p THEN 0
                                ELSE IF i = p THEN 1
                                ELSE Bit(point[dimension], i)

\* the node in which ph2_insert of point finds its address not active, where
\* it makes a new leaf
RECURSIVE Ph2NewLeafAt(_, _, _, _)
Ph2NewLeafAt(dual, path, point, z) ==
  LET a     == ph2_calculate_hypercube_address(point, dual)
      index == child_index(dual, a)
      Under(sub, d) ==
        IF (sub.infix_length > 0 /\ d > sub.postfix_length + 1)
           \/ phtree_node_is_leaf(sub)
        THEN {}
        ELSE Ph2NewLeafAt(sub, Append(path, index), point, z)
  IN  IF phtree_node_is_leaf(dual) THEN {}
      ELSE IF ~child_active(dual, a) THEN {path}
      ELSE Under(dual.children[index + 1],
                 ph2_number_of_diverging_bits(point, dual.children[index + 1].point, z))

\* the prefixes of the nodes of a compact tree, each with its postfix_length
Ph2Prefixes(root) ==
  {<<GetAt(root, path).point, GetAt(root, path).postfix_length>> :
     path \in LivePaths(root, <<>>) \ {<<>>}}

\* every node other than the root has bit postfix_length set and none below
C26_Centered ==
  /\ \A n \in DenseNodes \ {ROOT} :
       Canonical(tree.nodes[n].point, tree.nodes[n].postfix_length,
                 tree.nodes[n].point)
  /\ \A path \in Ph2Nodes \ {<<>>} :
       Canonical(GetAt(ph2.root, path).point, GetAt(ph2.root, path).postfix_length,
                 GetAt(ph2.root, path).point)

\* the nodes tree_insert allocates are canonical for its point, and neither
\* tree_insert nor tree_remove writes the prefix of a node there was
C26_Dense ==
  /\ \A point \in Points \cup DeepPoints, value \in Values, z \in ClzZero :
       LET r == tree_insert(tree, point, value, z)
       IN  /\ \A n \in DOMAIN r.t.nodes \ DOMAIN tree.nodes :
                Canonical(r.t.nodes[n].point, r.t.nodes[n].postfix_length, point)
           /\ \A n \in DOMAIN tree.nodes : r.t.nodes[n].point = tree.nodes[n].point
  /\ \A point \in Points \cup DeepPoints :
       \A n \in DOMAIN tree.nodes :
         tree_remove(tree, point).nodes[n].point = tree.nodes[n].point

\* the same of ph2_insert and ph2_remove, where nodes are copied between slots
C26_Compact ==
  /\ \A point \in Points \cup DeepPoints, z \in ClzZero :
       LET c == ph2_insert(ph2, point, z)
       IN  /\ \A at \in Ph2SplitAt(ph2.root, <<>>, point, z) :
                LET S == GetAt(c.t.root, Append(at[1], at[2]))
                    L == S.children[
                           child_index(S, ph2_calculate_hypercube_address(point, S)) + 1]
                IN  /\ Canonical(S.point, S.postfix_length, point)
                    /\ Canonical(L.point, L.postfix_length, point)
           /\ \A path \in Ph2NewLeafAt(ph2.root, <<>>, point, z) :
                LET N == GetAt(c.t.root, path)
                    L == N.children[
                           child_index(N, ph2_calculate_hypercube_address(point, N)) + 1]
                IN  Canonical(L.point, L.postfix_length, point)
           /\ Ph2Prefixes(ph2.root) \subseteq Ph2Prefixes(c.t.root)
  /\ \A point \in stored :
       Ph2Prefixes(ph2_remove(ph2, point).root) \subseteq Ph2Prefixes(ph2.root)

\* C26: every node insert creates, leaf or split node, with postfix_length p
\* has in each dimension bit p set, the bits below p clear and the bits above
\* p equal to those of the point it was created from, and neither a split nor
\* a collapse changes the prefix of a node that exists.
C26_CanonicalPrefix ==
  ret.op # "crashed" => C26_Centered /\ C26_Dense /\ C26_Compact


\* a stored point has been removed and a node made by a split is still there
C26_Witness ==
  /\ ret.op = "remove"
  /\ ret.found
  /\ \E n \in DenseNodes \ {ROOT} : ~node_is_leaf(tree.nodes[n])
  /\ \E path \in Ph2Nodes \ {<<>>} : ~phtree_node_is_leaf(GetAt(ph2.root, path))


(***************************************************************************)
(* The masks of the window query.                                          *)
(***************************************************************************)
\* the corners the windows of these properties are made of
MaskCorners == Points \cup DeepPoints

\* the keys that share the bits above postfix_length with center and have this
\* bit at postfix_length
QuadrantKeys(center, postfix_length, bit) ==
  {k \in 0 .. KEY_MAX :
     /\ k \div (2 ^ (postfix_length + 1)) = center \div (2 ^ (postfix_length + 1))
     /\ Bit(k, postfix_length) = bit}

\* the points of the region of a node with this prefix and postfix_length
\* that lie in the quadrant with this address
Quadrant(prefix, postfix_length, address) ==
  {point \in QuadrantKeys(prefix[1], postfix_length, Bit(address, 1))
               \X QuadrantKeys(prefix[2], postfix_length, Bit(address, 0)) :
     /\ SharesPrefix(point, prefix, postfix_length)
     /\ AddressFrom(point, postfix_length, DIMENSIONS) = address}

\* an address the masks turn away has no point of the window in its quadrant
MaskSound(prefix, postfix_length, min, max) ==
  \A address \in Addresses :
    ~MaskPass(address, MaskFrom(min, prefix, DIMENSIONS),
              MaskFrom(max, prefix, DIMENSIONS)) =>
      \A point \in Quadrant(prefix, postfix_length, address) : ~InBox(point, min, max)

C27_Sound ==
  \A min \in MaskCorners, max \in MaskCorners :
    InBox(min, min, max) =>
      /\ \A n \in DenseNodes \ {ROOT} :
           node_in_window(tree.nodes[n], [min |-> min, max |-> max]) =>
             MaskSound(tree.nodes[n].point, tree.nodes[n].postfix_length, min, max)
      /\ \A path \in Ph2Nodes \ {<<>>} :
           ph2_node_in_window(GetAt(ph2.root, path), [min |-> min, max |-> max]) =>
             MaskSound(GetAt(ph2.root, path).point,
                       GetAt(ph2.root, path).postfix_length, min, max)

\* the points a traversal of the dense tree visits that tests the prefix of
\* every node and the point of every entry, and no masks
RECURSIVE DenseUnmasked(_, _)
DenseUnmasked(n, window) ==
  IF ~node_in_window(tree.nodes[n], window) THEN {}
  ELSE IF node_is_leaf(tree.nodes[n])
  THEN {tree.entries[tree.nodes[n].children[a]].point :
          a \in {b \in LiveSlots(tree.nodes[n]) :
                   entry_in_window(tree.entries[tree.nodes[n].children[b]], window)}}
  ELSE UNION {DenseUnmasked(tree.nodes[n].children[a], window) :
                a \in LiveSlots(tree.nodes[n])}

\* the same of the compact tree
RECURSIVE Ph2Unmasked(_, _)
Ph2Unmasked(dual, window) ==
  IF ~ph2_node_in_window(dual, window) THEN {}
  ELSE IF phtree_node_is_leaf(dual)
  THEN {dual.children[child_index(dual, a) + 1].point :
          a \in {b \in Addresses :
                   /\ child_active(dual, b)
                   /\ ph2_entry_in_window(dual.children[child_index(dual, b) + 1],
                                          window)}}
  ELSE UNION {Ph2Unmasked(dual.children[child_index(dual, a) + 1], window) :
                a \in {b \in Addresses : child_active(dual, b)}}

C27_Dense ==
  \A min \in MaskCorners, max \in MaskCorners :
    InBox(min, min, max) =>
      VisitedPoints(tree, tree_query_window(tree, window_query_create(min, max)))
        = UNION {DenseUnmasked(tree.nodes[ROOT].children[a], [min |-> min, max |-> max]) :
                   a \in LiveSlots(tree.nodes[ROOT])}

C27_Compact ==
  \A min \in MaskCorners, max \in MaskCorners :
    InBox(min, min, max) =>
      FoundPoints(ph2_query(ph2, ph2_query_set(min, max)).found)
        = UNION {Ph2Unmasked(ph2.root.children[index + 1], [min |-> min, max |-> max]) :
                   index \in LiveIndices(ph2.root)}

\* C27: for a node that passes the prefix test of a window, an address a with
\* ((a OR mask_lower) AND mask_upper) # a has no point of the window in its
\* quadrant of the node's region, and so the traversal with the masks visits
\* the entries a traversal with the prefix test and the test of each entry
\* alone visits.
C27_MaskFilter == ret.op # "crashed" /\ ~tree.ub /\ ~ph2.ub => C27_Dense /\ C27_Compact /\ C27_Sound


(***************************************************************************)
(* calculate_hypercube_address and number_of_diverging_bits on their own.  *)
(***************************************************************************)
\* the keys the second point of number_of_diverging_bits is made of
BitKeys == {0, 1, 2 ^ (BIT_WIDTH - 1), KEY_MAX}

BitPoints == BitKeys \X BitKeys

\* both variants of calculate_hypercube_address on the point input, at a
\* node with this postfix_length
HypercubeAddress(postfix_length) ==
  /\ key' = [f |-> "calculate_hypercube_address",
             a |-> calculate_hypercube_address(input, [postfix_length |-> postfix_length]),
             b |-> ph2_calculate_hypercube_address(input, [postfix_length |-> postfix_length]),
             with |-> postfix_length]
  /\ UNCHANGED <<tree, ph2, stored, ret, calls, input>>

\* both variants of number_of_diverging_bits on the point input and point_b
DivergingBits(point_b, z) ==
  /\ key' = [f |-> "number_of_diverging_bits",
             a |-> number_of_diverging_bits(input, point_b, z),
             b |-> ph2_number_of_diverging_bits(input, point_b, z),
             with |-> point_b]
  /\ UNCHANGED <<tree, ph2, stored, ret, calls, input>>

NextBits ==
  \/ \E postfix_length \in 0 .. (BIT_WIDTH - 1) : HypercubeAddress(postfix_length)
  \/ \E point_b \in BitPoints \cup {input}, z \in ClzZero : DivergingBits(point_b, z)

SpecBits == InitKey /\ [][NextBits]_vars

\* address is the integer of DIMENSIONS bits whose bit (DIMENSIONS - 1 - i) is
\* bit postfix_length of coordinate i of point
IsAddressOf(address, point, postfix_length) ==
  /\ address \in 0 .. ((2 ^ DIMENSIONS) - 1)
  /\ \A i \in 0 .. (DIMENSIONS - 1) :
       Bit(address, DIMENSIONS - 1 - i) = Bit(point[i + 1], postfix_length)

\* C28: for every point and every postfix_length in [0, W-1],
\* calculate_hypercube_address returns the integer of K bits whose bit
\* (K-1-i) is bit postfix_length of coordinate i of the point, in both
\* variants.
C28_HypercubeAddress ==
  key.f = "calculate_hypercube_address" =>
    /\ IsAddressOf(key.a, input, key.with)
    /\ IsAddressOf(key.b, input, key.with)

\* the two coordinates differ in the bit asked for, above bit 0
C28_Witness ==
  /\ key.f = "calculate_hypercube_address"
  /\ key.with > 0
  /\ Bit(input[1], key.with) = 1
  /\ Bit(input[2], key.with) = 0
  /\ key.a = 2 ^ (DIMENSIONS - 1)
  /\ key.b = 2 ^ (DIMENSIONS - 1)

\* the highest bit at which the two points differ in any dimension is h
HighestDifference(point_a, point_b, h) ==
  /\ \E dimension \in 1 .. DIMENSIONS :
       Bit(point_a[dimension], h) # Bit(point_b[dimension], h)
  /\ \A dimension \in 1 .. DIMENSIONS, i \in (h + 1) .. (BIT_WIDTH - 1) :
       Bit(point_a[dimension], i) = Bit(point_b[dimension], i)

DivergingBitsIs(result, point_a, point_b) ==
  IF point_a = point_b THEN result = 0
  ELSE \E h \in 0 .. (BIT_WIDTH - 1) :
         HighestDifference(point_a, point_b, h) /\ result = h + 1

\* C29: number_of_diverging_bits(A, B) returns 0 when A = B in every
\* dimension, and otherwise h + 1 for the highest bit h at which A and B
\* differ in any dimension, in both variants.
C29_DivergingBits ==
  key.f = "number_of_diverging_bits" =>
    /\ DivergingBitsIs(key.a, input, key.with)
    /\ DivergingBitsIs(key.b, input, key.with)

\* the part of C29 about two different points
C29_Different ==
  key.f = "number_of_diverging_bits" /\ input # key.with =>
    /\ DivergingBitsIs(key.a, input, key.with)
    /\ DivergingBitsIs(key.b, input, key.with)


(***************************************************************************)
(* The descent of an insert.                                               *)
(***************************************************************************)
\* the postfix_length of every node the loop of tree_insert makes current
RECURSIVE DenseDescent(_, _, _, _, _)
DenseDescent(t, current_node, point, value, z) ==
  LET Added(r) == DenseDescent(r.t, r.node, point, value, z)
  IN  <<t.nodes[current_node].postfix_length>>
        \o (IF node_is_leaf(t.nodes[current_node]) THEN <<>>
            ELSE Added(node_add(t, current_node, point, value, z)))

\* the same of the loop of ph2_insert
RECURSIVE Ph2Descent(_, _, _)
Ph2Descent(current_dual, point, z) ==
  LET Added(r) == IF r.ub THEN <<>> ELSE Ph2Descent(GetAt(r.dual, r.path), point, z)
  IN  <<current_dual.postfix_length>>
        \o (IF phtree_node_is_leaf(current_dual) THEN <<>>
            ELSE Added(ph2_node_add(current_dual, point, z)))

\* the loop ran at most BIT_WIDTH times and each node it moved to has a
\* postfix_length below that of the node it left
Descends(visited) ==
  /\ Len(visited) - 1 <= BIT_WIDTH
  /\ \A i \in 1 .. (Len(visited) - 1) : visited[i + 1] < visited[i]

C30_Dense ==
  \A point \in Points \cup DeepPoints, z \in ClzZero :
    Descends(DenseDescent(tree, ROOT, point, 0, z))

C30_Compact ==
  \A point \in Points \cup DeepPoints, z \in ClzZero :
    Descends(Ph2Descent(ph2.root, point, z))

\* postfix_length falls from every node to each node below it
C30_Paths ==
  /\ \A n \in DenseNodes :
       ~node_is_leaf(tree.nodes[n]) =>
         \A a \in LiveSlots(tree.nodes[n]) :
           tree.nodes[tree.nodes[n].children[a]].postfix_length
             < tree.nodes[n].postfix_length
  /\ \A path \in Ph2Nodes :
       ~phtree_node_is_leaf(GetAt(ph2.root, path)) =>
         \A index \in LiveIndices(GetAt(ph2.root, path)) :
           GetAt(ph2.root, path).children[index + 1].postfix_length
             < GetAt(ph2.root, path).postfix_length

\* C30: in every state and for every point, the loop of insert runs at most W
\* times, each node it moves to has a smaller postfix_length than the node it
\* left (a split node lies below its parent and above its child), and
\* postfix_length falls along every path from the root to a leaf.
C30_DescentEnds ==
  ret.op # "crashed" /\ ~tree.ub /\ ~ph2.ub => C30_Dense /\ C30_Compact /\ C30_Paths


(***************************************************************************)
(* Box queries of the compact variant.                                     *)
(***************************************************************************)
\* ph2_point_box_set on a point of zeroes: convert_to_key of the model hands
\* the coordinate on as a key
ph2_point_box_set(a) ==
  [dimension \in 1 .. DIMENSIONS |->
     IF dimension = 1 \/ dimension = (DIMENSIONS \div 2) + 1 THEN a ELSE 0]

\* a convert_to_box_point written with ph2_point_box_set, as the header asks
convert_to_box_point(input_in) == ph2_point_box_set(input_in)

ph2_query_box_set(intersect, min_in, max_in) ==
  LET min == convert_to_box_point(min_in)
      max == convert_to_box_point(max_in)
  IN  IF intersect
      THEN query_set_internal(
             [dimension \in 1 .. DIMENSIONS |->
                IF dimension - 1 < DIMENSIONS \div 2 THEN 0 ELSE min[dimension]],
             [dimension \in 1 .. DIMENSIONS |->
                IF dimension - 1 >= DIMENSIONS \div 2 THEN PHTREE_KEY_MAX
                ELSE max[dimension]])
      ELSE query_set_internal(min, max)

ph2_query_box_point_set(point) == ph2_query_box_set(TRUE, point, point)

\* the stored points that are segments: lo in the first coordinate, hi in the
\* second, lo <= hi
Segments == {segment \in stored : segment[1] <= segment[2]}

\* the points a query of the compact tree visits
BoxVisited(query) == FoundPoints(ph2_query(ph2, query).found)

C31_Setup ==
  \A min_in \in Keys, max_in \in Keys :
    /\ ph2_query_box_set(TRUE, min_in, max_in).min = <<0, min_in>>
    /\ ph2_query_box_set(TRUE, min_in, max_in).max = <<max_in, KEY_MAX>>
    /\ ph2_query_box_point_set(min_in) = ph2_query_box_set(TRUE, min_in, min_in)

C31_Intersect ==
  \A min_in \in Keys, max_in \in Keys :
    min_in <= max_in =>
      BoxVisited(ph2_query_box_set(TRUE, min_in, max_in))
        = {segment \in Segments : segment[1] <= max_in /\ segment[2] >= min_in}

C31_Contained ==
  \A min_in \in Keys, max_in \in Keys :
    min_in <= max_in =>
      BoxVisited(ph2_query_box_set(FALSE, min_in, max_in))
        = {segment \in Segments : min_in <= segment[1] /\ segment[2] <= max_in}

\* C31: with segments stored as points (lo, hi), ph2_query_box_set with
\* intersect = true sets the first half of min to 0 and the second half of max
\* to the largest key and visits the stored segments with lo <= query max and
\* hi >= query min, with intersect = false it visits the stored segments that
\* lie within the query segment, and ph2_query_box_point_set (p) is
\* ph2_query_box_set (true, p, p).
C31_BoxQueries ==
  ret.op # "crashed" /\ ~ph2.ub /\ stored = Segments =>
    C31_Setup /\ C31_Intersect /\ C31_Contained


(***************************************************************************)
(* The calls of element_create and element_destroy of the compact variant. *)
(***************************************************************************)
\* the elements ph2_remove_entry hands to element_destroy
ph2_remove_entry_destroyed(dual, address) ==
  LET index == child_index(dual, address)
  IN  IF index < 0 \/ index >= Len(dual.children) THEN <<>>
      ELSE IF dual.children[index + 1].element # NULL
      THEN <<dual.children[index + 1].element>>
      ELSE <<>>

\* the elements ph2_remove hands to element_destroy
ph2_remove_destroyed(t, point) ==
  LET Leaf(leaf) ==
        ph2_remove_entry_destroyed(leaf, ph2_calculate_hypercube_address(point, leaf))
      Descended(path) ==
        IF path = <<>> THEN <<>> ELSE Leaf(GetAt(t.root, path))
  IN  Descended(ph2_remove_descend(t.root, <<>>, point))

\* the elements free_nodes hands to element_destroy through entry_free, from
\* child iter on
RECURSIVE free_nodes_destroyed(_, _)
free_nodes_destroyed(dual, iter) ==
  IF iter >= dual.child_count \/ iter >= Len(dual.children) THEN <<>>
  ELSE (IF phtree_node_is_leaf(dual)
        THEN (IF dual.children[iter + 1].element # NULL
              THEN <<dual.children[iter + 1].element>> ELSE <<>>)
        ELSE free_nodes_destroyed(dual.children[iter + 1], 0))
         \o free_nodes_destroyed(dual, iter + 1)

\* the elements ph2_clear, and ph2_free through it, hand to element_destroy
RECURSIVE ph2_clear_destroyed(_, _)
ph2_clear_destroyed(t, iter) ==
  IF iter >= t.root.child_count \/ iter >= Len(t.root.children) THEN <<>>
  ELSE free_nodes_destroyed(t.root.children[iter + 1], 0)
         \o ph2_clear_destroyed(t, iter + 1)

\* element_create runs in an insert exactly when the point is not stored
C32_Created ==
  \A point \in Points, z \in ClzZero :
    ph2_insert(ph2, point, z).created <=> point \notin stored

\* a remove destroys the element of its own point, once, and nothing else
C32_Removed ==
  \A point \in Points :
    ph2_remove_destroyed(ph2, point)
      = IF point \in stored THEN <<cell_create(point)>> ELSE <<>>

\* a clear or a free destroys the element of every stored point, once each
C32_Cleared ==
  LET destroyed == ph2_clear_destroyed(ph2, 0)
  IN  /\ {destroyed[i] : i \in 1 .. Len(destroyed)}
           = {cell_create(point) : point \in stored}
      /\ Len(destroyed) = Cardinality(stored)

\* C32: in the compact variant, over any sequence of insert, remove, clear and
\* free calls, element_create is called once for each entry newly created and
\* never for a point already stored, and element_destroy is called once for
\* each element created, when its own point is removed or the tree is cleared
\* or freed, never twice on one element and never on the element of a point
\* that is still stored.
C32_ElementLifetime ==
  ret.op # "crashed" /\ ~ph2.ub => C32_Created /\ C32_Removed /\ C32_Cleared

\* the part of C32 about calls that name stored points only
C32_StoredOnly ==
  ret.op # "crashed" /\ ~ph2.ub =>
    /\ C32_Created
    /\ C32_Cleared
    /\ \A point \in stored : ph2_remove_destroyed(ph2, point) = <<cell_create(point)>>


(***************************************************************************)
(* ph2_query_center.                                                       *)
(***************************************************************************)
\* the keys the windows handed to ph2_query_center are set up with
CenterKeys == Keys \cup {2 ^ (BIT_WIDTH - 1)}

CenterPoints == CenterKeys \X CenterKeys

\* the point ph2_query_center writes to out; the subtraction is one of
\* phtree_key_t
ph2_query_center(query) ==
  [dimension \in 1 .. DIMENSIONS |->
     ToKey((query.max[dimension] - query.min[dimension]) + (2 ^ BIT_WIDTH)) \div 2]

\* ph2_query_set, then ph2_query_center on the query it has set up
QueryCenter(min_in, max_in) ==
  /\ key' = [f |-> "ph2_query_center",
             a |-> ph2_query_center(ph2_query_set(min_in, max_in)),
             b |-> ph2_query_set(min_in, max_in)]
  /\ UNCHANGED <<tree, ph2, stored, ret, calls, input>>

NextCenter == \E min_in \in CenterPoints, max_in \in CenterPoints : QueryCenter(min_in, max_in)

SpecCenter == Init /\ [][NextCenter]_vars

\* C33: ph2_query_center writes, in each dimension, the midpoint of the
\* window, min + (max - min) / 2.
C33_QueryCenter ==
  key.f = "ph2_query_center" =>
    \A dimension \in 1 .. DIMENSIONS :
      key.a[dimension]
        = key.b.min[dimension] + ((key.b.max[dimension] - key.b.min[dimension]) \div 2)

(***************************************************************************)
(* tree_remove_element of the dense variant.                               *)
(***************************************************************************)
\* an entry holds at most this many ids
MaxIds == 3

\* the ids handed to tree_insert and tree_remove_element
ElementIds == 1 .. (MaxValue + 1)

ElementPoints == {<<0, 0>>, <<0, 2>>, <<1, 2>>}

\* the index of the first copy of element in elements from iter on, 0 where
\* there is none
RECURSIVE FirstAt(_, _, _)
FirstAt(elements, element, iter) ==
  IF iter > Len(elements) THEN 0
  ELSE IF elements[iter] = element THEN iter
  ELSE FirstAt(elements, element, iter + 1)

\* the loop of tree_remove_element: the last id is copied over the first copy
\* of element and cvector_erase takes the last one out
erase_element(elements, element) ==
  LET Erased(iter) ==
        IF iter = 0 THEN elements
        ELSE SubSeq(IF iter < Len(elements)
                    THEN [elements EXCEPT ![iter] = elements[Len(elements)]]
                    ELSE elements,
                    1, Len(elements) - 1)
  IN  Erased(FirstAt(elements, element, 1))

tree_remove_element(t, point, element) ==
  LET Found(entry) ==
        IF entry = NULL THEN t
        ELSE [t EXCEPT !.entries[entry].elements = erase_element(@, element)]
  IN  Found(tree_find(t, point))

ElementInsert(point, value, z) ==
  LET Inserted(r, c) ==
        /\ \A e \in DOMAIN r.t.entries : Len(r.t.entries[e].elements) <= MaxIds
        /\ Outcome(Normalize(r.t), c.t, stored \cup {point},
                   [op |-> "insert", found |-> r.entry # NULL, swapped |-> FALSE])
  IN  /\ ret.op # "crashed"
      /\ Inserted(tree_insert(tree, point, value, z), ph2_insert(ph2, point, z))

RemoveElement(point, element) ==
  /\ ret.op # "crashed"
  /\ Outcome(tree_remove_element(tree, point, element), ph2, stored,
             [op |-> "remove_element", found |-> tree_find(tree, point) # NULL,
              swapped |-> FALSE])

NextElement ==
  \/ \E point \in ElementPoints, value \in ElementIds, z \in ClzZero :
       ElementInsert(point, value, z)
  \/ \E point \in ElementPoints, element \in ElementIds : RemoveElement(point, element)

SpecElement == Init /\ [][NextElement]_vars

\* the number of copies of element in elements
Copies(elements, element) ==
  Cardinality({i \in 1 .. Len(elements) : elements[i] = element})

\* the entries of the dense tree that hold this point
EntriesAt(point) == {e \in DOMAIN tree.entries : tree.entries[e].point = point}

\* r is the tree with one copy of element taken from the ids of entry, and
\* nothing else changed
OneCopyTaken(r, entry, element) ==
  /\ r.nodes = tree.nodes
  /\ DOMAIN r.entries = DOMAIN tree.entries
  /\ \A e \in DOMAIN tree.entries :
       IF e = entry
       THEN /\ r.entries[e].point = tree.entries[e].point
            /\ r.entries[e].parent = tree.entries[e].parent
            /\ \A id \in ElementIds :
                 Copies(r.entries[e].elements, id)
                   = Copies(tree.entries[e].elements, id)
                       - (IF id = element THEN 1 ELSE 0)
       ELSE r.entries[e] = tree.entries[e]

\* C34: in the dense variant, tree_remove_element (P, e) takes one copy of e
\* from the ids of the entry at P when e is among them and leaves the other
\* ids as a multiset, changes nothing when P is not stored or e is not among
\* the ids, and never removes the entry or changes the nodes, also when no id
\* is left.
C34_RemoveElement ==
  ret.op # "crashed" /\ ~tree.ub =>
    \A point \in ElementPoints, element \in ElementIds :
      IF \E e \in EntriesAt(point) : Copies(tree.entries[e].elements, element) > 0
      THEN \E e \in EntriesAt(point) :
             OneCopyTaken(tree_remove_element(tree, point, element), e, element)
      ELSE tree_remove_element(tree, point, element) = tree

\* the part of C34 about the points that are stored
C34_Stored ==
  ret.op # "crashed" /\ ~tree.ub =>
    \A point \in stored, element \in ElementIds :
      IF \E e \in EntriesAt(point) : Copies(tree.entries[e].elements, element) > 0
      THEN \E e \in EntriesAt(point) :
             OneCopyTaken(tree_remove_element(tree, point, element), e, element)
      ELSE tree_remove_element(tree, point, element) = tree


(***************************************************************************)
(* Trees built by inserts alone.                                           *)
(***************************************************************************)
\* at most this many of the points below are stored at a time
MaxGrow == 4

GrowPoints == DeepPoints \cup {<<0, 1>>, <<0, 2>>, <<KEY_MAX, KEY_MAX>>}

GrowInsert(point, value, z) ==
  LET Inserted(r, c) ==
        /\ \A e \in DOMAIN r.t.entries : Len(r.t.entries[e].elements) <= MaxElements
        /\ Outcome(Normalize(r.t), c.t, stored \cup {point},
                   [op |-> "insert", found |-> r.entry # NULL, swapped |-> FALSE])
  IN  /\ ret.op # "crashed"
      /\ Cardinality(stored \cup {point}) <= MaxGrow
      /\ Inserted(tree_insert(tree, point, value, z), ph2_insert(ph2, point, z))

NextGrow == \E point \in GrowPoints, value \in Values, z \in ClzZero : GrowInsert(point, value, z)

SpecGrow == Init /\ [][NextGrow]_vars

\* the structure beneath a dense node: its lengths, its prefix, and what each
\* of its slots holds, without the addresses of the heap
RECURSIVE DenseShape(_, _)
DenseShape(t, n) ==
  [postfix_length |-> t.nodes[n].postfix_length,
   infix_length   |-> t.nodes[n].infix_length,
   point          |-> t.nodes[n].point,
   child_count    |-> t.nodes[n].child_count,
   children       |->
     [a \in Addresses |->
        IF t.nodes[n].children[a] = NULL THEN <<>>
        ELSE IF node_is_leaf(t.nodes[n])
        THEN <<t.entries[t.nodes[n].children[a]].point>>
        ELSE <<DenseShape(t, t.nodes[n].children[a])>>]]

\* the same of a compact node: the first child_count slots hold its children
RECURSIVE Ph2Shape(_)
Ph2Shape(dual) ==
  [postfix_length  |-> dual.postfix_length,
   infix_length    |-> dual.infix_length,
   point           |-> dual.point,
   child_count     |-> dual.child_count,
   active_children |-> dual.active_children,
   children        |->
     [j \in 1 .. dual.child_count |->
        IF phtree_node_is_leaf(dual)
        THEN [point |-> dual.children[j].point, element |-> dual.children[j].element]
        ELSE Ph2Shape(dual.children[j])]]

\* the trees the inserts of these points build, taken in one fixed order
RECURSIVE DenseBuilt(_, _)
DenseBuilt(t, points) ==
  IF points = {} THEN t
  ELSE LET point == CHOOSE point \in points : TRUE
       IN  DenseBuilt(tree_insert(t, point, 1, BIT_WIDTH_MAX).t, points \ {point})

RECURSIVE Ph2Built(_, _)
Ph2Built(t, points) ==
  IF points = {} THEN t
  ELSE LET point == CHOOSE point \in points : TRUE
       IN  Ph2Built(ph2_insert(t, point, BIT_WIDTH_MAX).t, points \ {point})

C35_Dense == DenseShape(tree, ROOT) = DenseShape(DenseBuilt(tree_create, stored), ROOT)

C35_Compact == Ph2Shape(ph2.root) = Ph2Shape(Ph2Built(ph2_initialize, stored).root)

\* C35: a tree built by insert calls alone has the nodes, with their
\* postfix_length, infix_length and prefix, and the slots of children and
\* entries, that the set of the inserted points gives in any order of the
\* calls.
C35_OrderFree == ret.op # "crashed" /\ ~tree.ub /\ ~ph2.ub => C35_Dense /\ C35_Compact


\* three points or more are stored, a node lies between the root and a leaf in
\* both trees, and the calls came in an order that left the heap of the dense
\* tree other than the fixed order leaves it
C35_Witness ==
  /\ ret.op = "insert"
  /\ Cardinality(stored) >= 3
  /\ tree # Normalize(DenseBuilt(tree_create, stored))
  /\ \E n \in DenseNodes \ {ROOT} : ~node_is_leaf(tree.nodes[n])
  /\ \E path \in Ph2Nodes \ {<<>>} : ~phtree_node_is_leaf(GetAt(ph2.root, path))


(***************************************************************************)
(* An insert and the remove of the same point.                             *)
(***************************************************************************)
C36_Dense ==
  \A point \in GrowPoints \ stored, z \in ClzZero :
    LET Undone(t) == ~t.ub /\ DenseShape(t, ROOT) = DenseShape(tree, ROOT)
    IN  Undone(tree_remove(tree_insert(tree, point, 1, z).t, point))

C36_Compact ==
  \A point \in GrowPoints \ stored, z \in ClzZero :
    LET Undone(t) == ~t.ub /\ Ph2Shape(t.root) = Ph2Shape(ph2.root)
    IN  Undone(ph2_remove(ph2_insert(ph2, point, z).t, point))

\* the compact tree has its shape back, whatever the remove did to freed memory
C36_CompactShape ==
  \A point \in GrowPoints \ stored, z \in ClzZero :
    Ph2Shape(ph2_remove(ph2_insert(ph2, point, z).t, point).root) = Ph2Shape(ph2.root)

\* C36: for a tree built by insert calls and a point P that is not stored,
\* insert (P) and then remove (P) leave the nodes, their postfix_length,
\* infix_length and prefix, the slots and counts of their children and the
\* entries as they were.
C36_RemoveUndoesInsert ==
  ret.op # "crashed" /\ ~tree.ub /\ ~ph2.ub => C36_Dense /\ C36_Compact


(***************************************************************************)
(* key_to_value.                                                           *)
(***************************************************************************)
\* a key_to_value that returns the bits of the key as memcpy leaves them
key_to_value_as_copied(a) == ToSigned(ToKey(a))

\* the sign bit is flipped and the bits are read as a signed value
key_to_value(a) == ToSigned(ToKey(BitXor(ToKey(a), 2 ^ (BIT_WIDTH - 1))))

\* value_to_key and then key_to_value, on the two inputs read as signed values
ValueKeyValue ==
  /\ key' = [f |-> "value_to_key, key_to_value",
             a |-> key_to_value(value_to_key(ToSigned(input[1]))),
             b |-> key_to_value(value_to_key(ToSigned(input[2])))]
  /\ UNCHANGED <<tree, ph2, stored, ret, calls, input>>

\* key_to_value and then value_to_key, on the two inputs read as keys
KeyValueKey ==
  /\ key' = [f |-> "key_to_value, value_to_key",
             a |-> value_to_key(key_to_value(input[1])),
             b |-> value_to_key(key_to_value(input[2]))]
  /\ UNCHANGED <<tree, ph2, stored, ret, calls, input>>

NextInverse ==
  \/ ValueKeyValue
  \/ KeyValueKey

SpecInverse == InitKey /\ [][NextInverse]_vars

\* C37: key_to_value (value_to_key (a)) = a for every signed value a of W
\* bits, and value_to_key (key_to_value (k)) = k for every key k of W bits.
C37_Inverse ==
  /\ key.f = "value_to_key, key_to_value" =>
       key.a = ToSigned(input[1]) /\ key.b = ToSigned(input[2])
  /\ key.f = "key_to_value, value_to_key" =>
       key.a = input[1] /\ key.b = input[2]

\* a negative value and one that is not negative have made the round trip
C37_Witness ==
  /\ key.f = "value_to_key, key_to_value"
  /\ ToSigned(input[1]) < 0
  /\ ToSigned(input[2]) >= 0
  /\ key.a = ToSigned(input[1])
  /\ key.b = ToSigned(input[2])

====
